---- MODULE Spec2Model ----
(***************************************************************************)
(* A model of swpt_pythonlib.flask_signalbus: the outbox flush engine      *)
(* (SignalBus.flushmany), the atomic transaction block                     *)
(* (AtomicProceduresMixin.atomic) and the retry-on-conflict primitive      *)
(* (retry_on_deadlock) both are built on; of the broker consumer           *)
(* swpt_pythonlib.rabbitmq.Consumer; and of utils.is_later_event.          *)
(*                                                                         *)
(* Spec         the flush engine: several flushmany calls run concurrently *)
(*              against one outbox database.                               *)
(* SpecSingle   one flushmany call with nothing else using the database.   *)
(* SpecLists    one flushmany call given any explicit list of models.      *)
(* SpecAtomic   one session thread making retry-wrapped and atomic calls.  *)
(* SpecConsumer the I/O thread and the worker threads of a consumer.       *)
(* SpecDrain    the draining pauses of two consumers on the wall clock.    *)
(* SpecEvents   calls of is_later_event.                                   *)
(* SpecRetries  one flushmany call whose transactions meet conflicts.      *)
(* SpecBurst    one flushmany call that takes every step it can take.      *)
(* SpecLost     the consumer with a connection that can be lost.           *)
(* SpecPolls    the consumption loop of start(), poll by poll.             *)
(***************************************************************************)
EXTENDS Integers, Sequences, FiniteSets

----------------------------------------------------------------------------
(* Bounds of the model. *)

\* pending rows of the burst-configurable signal type at the start, when
\* several calls run concurrently
MaxRows == 3
\* largest signalbus_burst_count tried for the burst-configurable type
MaxBurst == 2
\* delivery errors the message bus raises over a run
MaxSendErrors == 1
\* process crashes over a run
MaxCrashes == 1
\* conflict-class errors the database raises over a run
MaxConflicts == 1
\* conflicts with transactions of other programs, in the runs of one flusher
MaxOutsideConflicts == 13

\* calls the session thread makes in a run
MaxCalls == 2
\* largest retries argument tried for a directly wrapped callable
MaxRetries == 5
\* messages the broker has for the consumer in one run of start()
MaxDeliveries == 3
\* calls of Consumer.start()
MaxStarts == 2
\* draining pauses of a consumer, over all its runs
MaxPauses == 3
\* empty polls in a row of a consumer that makes no pause
MaxPolls == 5
\* the latest timestamp of an event, in ticks of the clock of the events
MaxTs == 5
\* the wall clock, in seconds, when the consumer instances are constructed
\* (at most) and when the run is cut off
MaxStartTime == 2
MaxTime == 12

(* Program constants. *)

\* retry_on_deadlock(self.signal_session, retries=11, max_wait=1.0)
FlushRetries == 11
\* int(getattr(model, 'signalbus_burst_count', 1))
DefaultBurstCount == 1

----------------------------------------------------------------------------
(* The signal types of the model and their rows. *)

\* the concurrently running flushmany callers (processes or threads)
Flushers == {1, 2}

\* T1: a signal model with a configurable signalbus_burst_count (and, in some
\* runs, a send_signalbus_messages bulk method); T2: a signal model with the
\* defaults; NS: a model without send_signalbus_message.
SignalModels == {"T1", "T2"}
AllModels == SignalModels \cup {"NS"}

Row(t, i) == [t |-> t, id |-> i]

\* hasattr(model, 'send_signalbus_message')
HasSendMethod(model) == model \in SignalModels

\* get_signal_models: the classes of the registry that have the method
GetSignalModels == {model \in AllModels : HasSendMethod(model)}

\* the argument of flushmany: models=None stands for get_signal_models()
ModelLists == {<<"T1", "T2">>, <<"T1">>}

\* explicit lists with a model that is no signal model, in every position
ExplicitLists == ModelLists \cup {<<"NS">>, <<"T1", "NS">>, <<"NS", "T1">>}

Range(s) == {s[i] : i \in 1..Len(s)}

RECURSIVE Sum(_, _)
Sum(f, S) == IF S = {} THEN 0
             ELSE LET x == CHOOSE y \in S : TRUE
                  IN f[x] + Sum(f, S \ {x})

----------------------------------------------------------------------------
VARIABLES
    \* --- the database and the types' configuration
    table,          \* committed rows of the outbox tables
    locks,          \* locks[p]: rows locked FOR UPDATE by p's open transaction
    burst,          \* burst[t]: signalbus_burst_count of type t
    hasBulk,        \* hasBulk[t]: type t has send_signalbus_messages
    \* --- each flushmany call
    pc,             \* position of the call
    models,         \* models_to_flush
    mi,             \* index of the model being flushed
    total,          \* sent_count of _flush_models
    sent,           \* sent_count of _flushmany_signals
    signals,        \* the batch fetched by query.all()
    si,             \* rows of the batch already passed to send_signalbus_message
    numFailures,    \* failures counted by the retry wrapper
    result,         \* what flushmany returned (-1: nothing yet)
    err,            \* the error flushmany raised
    \* --- the environment's budgets
    sendErrors, crashes, conflicts,
    \* --- history
    initial,        \* the rows pending before any call
    delivered,      \* rows whose delivery has completed at least once
    deliveredTx,    \* deliveredTx[p]: rows delivered in p's open transaction
    removed,        \* removed[p]: rows whose deletion p's call committed
    lost,           \* rows deleted by a transaction that did not deliver them
    batches,        \* batches[p]: sizes of the batches p's call committed
    failedBatch,    \* failedBatch[p]: the batch in hand when delivery raised
    sendCalls,      \* sendCalls[p]: the calls of the delivery methods made
                    \* for the batch in hand, each with how it ended
    sentBefore,     \* sentBefore[p]: rows whose delivery completed in a
                    \* transaction p's call has rolled back since its last
                    \* commit
    \* --- the session thread making retry-wrapped and atomic calls
    apc,            \* position of the call
    akind,          \* "retry": a retry-wrapped callable; "atomic": an atomic call
    aretries,       \* retries of the call's retry wrapper
    atomicFlag,     \* session.info['flask_signalbus__atomic_flag']
    afailures,      \* failures counted by the retry wrapper
    executions,     \* invocations of the wrapped function in this call
    commits,        \* session.commit() calls in this call
    rollbacks,      \* session.rollback() calls in this call
    outcome,        \* "returned", or the error the call raised
    calls,          \* calls made so far
    \* --- history of the call
    first,          \* how the first invocation of the function ended
    last,           \* how the latest invocation of the function ended
    allConflict,    \* every invocation so far raised the conflict kind
    flushed,        \* how the latest session.flush() ended
    committed,      \* how session.commit() ended
    \* --- an atomic-wrapped function called by the function of the call
    nested,         \* "none", "direct" or "outermost" while it runs, then
                    \* "returned" or the error it raised
    innerEnds,      \* commits and rollbacks made by the inner call
    allIntegrity,   \* every invocation so far raised IntegrityError inside
                    \* retry_on_integrity_error
    obj,            \* the object the function has added to the session: none,
                    \* pending, persistent, detached, dropped
    objAtCommit,    \* what obj was when session.commit() was called
    innerObj,       \* the object added by the inner atomic-wrapped function
    prior,          \* how the atomic call before this call ended ("none"
                    \* when the call before was no atomic call)
    \* --- the consumer's configuration
    threads,        \* Consumer.threads
    prefetchCount,  \* Consumer.prefetch_count
    drainingMode,   \* Consumer.draining_mode
    \* --- the thread that runs Consumer.start() (the I/O thread)
    iopc,           \* its position in start()
    ioi,            \* the worker of the stop and join loops
    inHand,         \* the delivery t that start() is putting on the queue
    \* --- the consumer's objects
    stopped,        \* Consumer._stopped
    workQueue,      \* Consumer._work_queue: delivery tags, oldest first
    connected,      \* Consumer._connection is open
    callbacks,      \* calls handed over by add_callback_threadsafe, not yet
                    \* executed
    nextTag,        \* deliveries the channel has yielded to start()
    \* --- the worker threads
    wpc,            \* wpc[w]: position of worker w in run()
    isRunning,      \* isRunning[w]: _WorkerThread.is_running
    item,           \* item[w]: the delivery worker w is processing
    \* --- history of the run of start()
    results,        \* results[t]: how the callback ended, per call, for tag t
    handoffs,       \* handoffs[t]: the calls handed over for tag t
    executed,       \* executed[t]: the calls the channel executed for tag t
    channelUsers,   \* the threads that have operated connection or channel
    failed,         \* the workers whose callback has raised
    flagTag,        \* deliveries taken when the stop flag was set (-1: not set)
    stopCalled,     \* stop() has been called from outside
    starts,         \* calls of start() so far
    \* --- the draining pauses of the consumer instances, on the wall clock
    now,            \* time.time(), in seconds
    dmode,          \* dmode[c]: where instance c is: new, consuming, pause,
                    \* terminated
    drainingPauseSeconds,   \* drainingPauseSeconds[c]: _draining_pause_seconds
    epoch,          \* epoch[c]: when c entered its current pause
    pauseUntil,     \* pauseUntil[c]: pause_until of c's current pause
    \* --- a call of is_later_event(event, other_event)
    ts,             \* the timestamp of event, in half seconds
    seqnum,         \* the sequential number of event
    otherTs,        \* the timestamp of other_event: None or Some(t)
    otherSeqnum,    \* the sequential number of other_event: None or Some(n)
    isLater,        \* what the call returned: "true" or "false" ("none" before)
    \* --- the consumption loop of start(), poll by poll
    ppc,            \* the position of the I/O thread in start()
    pdraining,      \* Consumer.draining_mode
    pstopped,       \* Consumer._stopped
    inactivityCounter,  \* inactivity_counter of start()
    pauseSeconds,   \* Consumer._draining_pause_seconds
    consuming,      \* the generator of channel.consume is active
    connection,     \* the connection in use: its number, 0 for none
    opened,         \* connections opened so far
    emptyPolls,     \* empty polls since the last delivery and since the
                    \* consumption was started or resumed
    pauses,         \* draining pauses made so far
    loopCancels,    \* calls of channel.cancel() made in the loop so far
    pausedOn        \* the connection on which the last pause of this run
                    \* of start() was made (0: no pause yet)

dbVars == <<table, locks, burst, hasBulk>>
callVars == <<pc, models, mi, total, sent, signals, si, numFailures,
              result, err>>
envVars == <<sendErrors, crashes, conflicts>>
histVars == <<initial, delivered, deliveredTx, removed, lost, batches,
              failedBatch, sendCalls, sentBefore>>
atomVars == <<apc, akind, aretries, atomicFlag, afailures, executions, commits,
              rollbacks, outcome, calls, first, last, allConflict, flushed,
              committed, nested, innerEnds, allIntegrity, obj, objAtCommit,
              innerObj,
              prior>>
consVars == <<threads, prefetchCount, drainingMode, iopc, ioi, inHand, stopped,
              workQueue, connected, callbacks, nextTag, wpc, isRunning, item,
              results, handoffs, executed, channelUsers, failed, flagTag,
              stopCalled, starts>>
drainVars == <<now, dmode, drainingPauseSeconds, epoch, pauseUntil>>
eventVars == <<ts, seqnum, otherTs, otherSeqnum, isLater>>
pollVars == <<ppc, pdraining, pstopped, inactivityCounter, pauseSeconds,
              consuming, connection, opened, emptyPolls, pauses, loopCancels,
              pausedOn>>
extVars == <<drainVars, eventVars, pollVars>>
appVars == <<dbVars, callVars, envVars, histVars, atomVars, consVars>>
vars == <<dbVars, callVars, envVars, histVars, atomVars, consVars, extVars>>

----------------------------------------------------------------------------
(* The database. *)

LockedByOthers(p) == UNION {locks[q] : q \in Flushers \ {p}}

RECURSIVE FirstRows(_, _)
\* the first n rows of S in storage (primary key) order
FirstRows(S, n) ==
    IF n = 0 \/ S = {} THEN <<>>
    ELSE LET r == CHOOSE x \in S : \A y \in S : x.id <= y.id
         IN <<r>> \o FirstRows(S \ {r}, n - 1)

\* the same query without its locking clause: other transactions' locks are
\* not looked at
PlainSelect(model, maxCount, p) ==
    FirstRows({r \in table : r.t = model}, maxCount)

\* query.limit(max_count).with_for_update(skip_locked=True).all() in p's
\* transaction: rows locked by another transaction are skipped
SkipLockedSelect(model, maxCount, p) ==
    FirstRows({r \in table : r.t = model /\ r \notin LockedByOthers(p)}, maxCount)

\* a serialization failure or a deadlock needs a concurrent transaction
InFlight(p) == pc[p] \in {"select", "send"}
ConflictPossible(p) ==
    /\ conflicts < MaxConflicts
    /\ \E q \in Flushers \ {p} : InFlight(q)


----------------------------------------------------------------------------
(* The retry-on-conflict primitive, as it wraps _flushmany_signals. *)

\* retry_on_deadlock(session) without a retries argument
DefaultRetries == 11

\* the conflict kind: DBSerializationError, raised by the application or
\* mapped from the driver's deadlock and serialization errors
ConflictError == "DBSerializationError"

\* every error counted as a conflict
AnyErrorIsConflict(e) == TRUE

IsConflictError(e) == e = ConflictError

\* one invocation too few
RetryAgainOffByOne(failures, retries) == failures < retries

\* after a conflict-class error has been counted: invoke the callable again?
RetryAgain(failures, retries) == failures <= retries

----------------------------------------------------------------------------
(* flushmany. *)

CurrentModel(p) == models[p][mi[p]]

\* _get_signal_burst_count
GetSignalBurstCount(model) == burst[model]

\* the bulk method used for a batch of one row too
UsesBulkSendFromOne(p) == Len(signals[p]) >= 1 /\ hasBulk[CurrentModel(p)]

\* n > 1 and hasattr(model, 'send_signalbus_messages')
UsesBulkSend(p) == Len(signals[p]) > 1 /\ hasBulk[CurrentModel(p)]

\* the deletes not waiting for the sends
DeleteAnytime(p) == TRUE

\* _send_and_delete_signal_instances: the deletes come after all the sends
AllSent(p) == si[p] = Len(signals[p])

\* deleting by query, every pending row of the type, not the fetched rows
DeleteAllOfModel(p) == {r \in table : r.t = CurrentModel(p)}

\* the rows _send_and_delete_signal_instances passes to session.delete
RowsToDelete(p) == Range(signals[p])

\* the loop going on until a claim fetches no row
LastBatchWhenEmpty(p) == Len(signals[p]) = 0

\* the exit test off by one: len(signals) <= burst_count
LastBatchOffByOne(p) == Len(signals[p]) <= GetSignalBurstCount(CurrentModel(p))

\* the loop's exit test: len(signals) < burst_count
LastBatch(p) == Len(signals[p]) < GetSignalBurstCount(CurrentModel(p))

\* the end of p's transaction: its locks go, its fetched rows are dropped
EndTransaction(p) ==
    /\ locks' = [locks EXCEPT ![p] = {}]
    /\ deliveredTx' = [deliveredTx EXCEPT ![p] = {}]
    /\ signals' = [signals EXCEPT ![p] = <<>>]
    /\ si' = [si EXCEPT ![p] = 0]

\* a call of a delivery method: send_signalbus_message ("single") of one
\* row or send_signalbus_messages ("bulk") of the rows, returning or raising
SendCall(method, rows, ok) == [m |-> method, rows |-> rows, ok |-> ok]

\* the call is made for p
Invoke(p, call) == sendCalls' = [sendCalls EXCEPT ![p] = Append(@, call)]

\* the batch in hand is over
BatchOver(p) == sendCalls' = [sendCalls EXCEPT ![p] = <<>>]

\* p's call has committed or has ended: no rolled back delivery to follow
NoneSentBefore(p) == sentBefore' = [sentBefore EXCEPT ![p] = {}]

\* an error leaves _flush_models with the rows delivered so far deleted and
\* the transaction committed, not rolled back
FlushModelsRaiseCommitting(p, e) ==
    /\ EndTransaction(p)
    /\ table' = table \ deliveredTx[p]
    /\ pc' = [pc EXCEPT ![p] = "failed"]
    /\ err' = [err EXCEPT ![p] = e]
    /\ UNCHANGED <<burst, hasBulk, models, mi, total, sent, numFailures,
                   result, initial, delivered, removed, lost, batches>>

\* _flush_models ending its loop at a model that is no signal model
FlushModelsFromUnchecked(p, ms, k, count) ==
    /\ mi' = [mi EXCEPT ![p] = k]
    /\ total' = [total EXCEPT ![p] = count]
    /\ IF k > Len(ms) \/ ~HasSendMethod(ms[k])
       THEN /\ pc' = [pc EXCEPT ![p] = "done"]
            /\ result' = [result EXCEPT ![p] = count]
            /\ UNCHANGED <<err, numFailures, sent>>
       ELSE /\ pc' = [pc EXCEPT ![p] = "select"]
            /\ numFailures' = [numFailures EXCEPT ![p] = 0]
            /\ sent' = [sent EXCEPT ![p] = 0]
            /\ UNCHANGED <<result, err>>

\* _flush_models from the k-th model of ms on, with sent_count = count: return
\* at the end of the list, raise for a model that is no signal model, or have
\* the retry wrapper invoke _flushmany_signals (its sent_count = 0)
FlushModelsFrom(p, ms, k, count) ==
    /\ mi' = [mi EXCEPT ![p] = k]
    /\ total' = [total EXCEPT ![p] = count]
    /\ IF k > Len(ms)
       THEN /\ pc' = [pc EXCEPT ![p] = "done"]
            /\ result' = [result EXCEPT ![p] = count]
            /\ UNCHANGED <<err, numFailures, sent>>
       ELSE IF ~HasSendMethod(ms[k])
       THEN /\ pc' = [pc EXCEPT ![p] = "failed"]
            /\ err' = [err EXCEPT ![p] = "RuntimeError"]
            /\ UNCHANGED <<result, numFailures, sent>>
       ELSE /\ pc' = [pc EXCEPT ![p] = "select"]
            /\ numFailures' = [numFailures EXCEPT ![p] = 0]
            /\ sent' = [sent EXCEPT ![p] = 0]
            /\ UNCHANGED <<result, err>>

\* the error is dropped and the loop of _flush_models goes on with the next
\* model
FlushModelsSkipModel(p, e) ==
    /\ EndTransaction(p)
    /\ FlushModelsFrom(p, models[p], mi[p] + 1, total[p] + sent[p])
    /\ UNCHANGED <<table, burst, hasBulk, models, initial, delivered, removed,
                   lost, batches>>

\* an error leaves _flush_models: its finally clause runs session.remove(),
\* which rolls the open transaction back
FlushModelsRaise(p, e) ==
    /\ EndTransaction(p)
    /\ pc' = [pc EXCEPT ![p] = "failed"]
    /\ err' = [err EXCEPT ![p] = e]
    /\ UNCHANGED <<table, burst, hasBulk, models, mi, total, sent, numFailures,
                   result, initial, delivered, removed, lost, batches>>

\* the thread that runs Consumer.start(), among the threads 0, 1, 2
IoThread == 0
\* the worker threads a consumer can have, and the delivery tags of a run
Workers == {1, 2}
Tags == 1..MaxDeliveries

\* Consumer.__init__ and init_app with the configuration (th, pf, dm): not
\* started, no queue, no connection, no worker
ConsumerNew(th, pf, dm) ==
    /\ threads = th /\ prefetchCount = pf /\ drainingMode = dm
    /\ iopc = "new" /\ ioi = 0 /\ inHand = 0
    /\ stopped = TRUE
    /\ workQueue = <<>>
    /\ connected = FALSE
    /\ callbacks = <<>>
    /\ nextTag = 0
    /\ wpc = [w \in Workers |-> "none"]
    /\ isRunning = [w \in Workers |-> FALSE]
    /\ item = [w \in Workers |-> 0]
    /\ results = [t \in Tags |-> <<>>]
    /\ handoffs = [t \in Tags |-> <<>>]
    /\ executed = [t \in Tags |-> <<>>]
    /\ channelUsers = {}
    /\ failed = {}
    /\ flagTag = -1
    /\ stopCalled = FALSE
    /\ starts = 0

\* a consumer with the defaults of init_app, never started
ConsumerIdle == ConsumerNew(1, 1, FALSE)

\* the consumer instances whose draining pauses are followed
Consumers == {1, 2}

\* Consumer.__init__: self._draining_pause_seconds = 15.0, in seconds
InitialDrainingPauseSeconds == 15
\* the cap of the pause in _make_draining_pause: min(2.0 * dps, 3600.0)
MaxDrainingPauseSeconds == 3600

\* the instances as constructed at time t, none started
DrainNew(t) ==
    /\ now = t
    /\ dmode = [c \in Consumers |-> "new"]
    /\ drainingPauseSeconds = [c \in Consumers |-> InitialDrainingPauseSeconds]
    /\ epoch = [c \in Consumers |-> 0]
    /\ pauseUntil = [c \in Consumers |-> 0]

\* an Optional value: None, or the value x
None == <<>>
Some(x) == <<x>>

\* is_later_event called with event = (t, n) and other_event = (ot, on)
EventsGiven(t, n, ot, on) ==
    /\ ts = t /\ seqnum = n /\ otherTs = ot /\ otherSeqnum = on
    /\ isLater = "none"

\* the consumer as constructed with draining_mode = dm, not started
PollNew(dm) ==
    /\ ppc = "new" /\ pdraining = dm /\ pstopped = TRUE
    /\ inactivityCounter = 0
    /\ pauseSeconds = InitialDrainingPauseSeconds
    /\ consuming = FALSE /\ connection = 0 /\ opened = 0
    /\ emptyPolls = 0 /\ pauses = 0 /\ loopCancels = 0 /\ pausedOn = 0

\* what the other specifications leave as constructed
ExtIdle == DrainNew(0) /\ EventsGiven(0, 0, None, None) /\ PollNew(FALSE)

\* the session thread before its first call
SessionIdle ==
    /\ apc = "idle" /\ akind = "none" /\ aretries = 0
    /\ atomicFlag = FALSE
    /\ afailures = 0 /\ executions = 0 /\ commits = 0 /\ rollbacks = 0
    /\ outcome = "none" /\ calls = 0
    /\ first = "none" /\ last = "none" /\ allConflict = TRUE
    /\ flushed = "none" /\ committed = "none"
    /\ nested = "none" /\ innerEnds = 0 /\ allIntegrity = TRUE
    /\ obj = "none" /\ objAtCommit = "none" /\ innerObj = "none"
    /\ prior = "none"

\* no flushmany call has been made
CallsIdle ==
    /\ locks = [p \in Flushers |-> {}]
    /\ pc = [p \in Flushers |-> "idle"]
    /\ models = [p \in Flushers |-> <<>>]
    /\ mi = [p \in Flushers |-> 0]
    /\ total = [p \in Flushers |-> 0]
    /\ sent = [p \in Flushers |-> 0]
    /\ signals = [p \in Flushers |-> <<>>]
    /\ si = [p \in Flushers |-> 0]
    /\ numFailures = [p \in Flushers |-> 0]
    /\ result = [p \in Flushers |-> -1]
    /\ err = [p \in Flushers |-> "none"]
    /\ sendErrors = 0 /\ crashes = 0 /\ conflicts = 0
    /\ delivered = {}
    /\ deliveredTx = [p \in Flushers |-> {}]
    /\ removed = [p \in Flushers |-> {}]
    /\ lost = {}
    /\ batches = [p \in Flushers |-> <<>>]
    /\ failedBatch = [p \in Flushers |-> {}]
    /\ sendCalls = [p \in Flushers |-> <<>>]
    /\ sentBefore = [p \in Flushers |-> {}]

\* the state before any call, with at most maxRows pending rows of type T1
InitWith(maxRows) ==
    /\ \E n1 \in 0..maxRows, n2 \in 0..1 :
          table = {Row("T1", i) : i \in 1..n1} \cup {Row("T2", i) : i \in 1..n2}
    /\ initial = table
    /\ \E b \in 1..MaxBurst :
          burst = [t \in SignalModels |-> IF t = "T1" THEN b ELSE DefaultBurstCount]
    /\ \E bulk \in BOOLEAN : hasBulk = [t \in SignalModels |-> t = "T1" /\ bulk]
    /\ CallsIdle
    /\ SessionIdle
    /\ ConsumerIdle
    /\ ExtIdle

\* flushmany(models) is called with one of the lists: _flush_models starts on
\* the first model
StartWith(p, lists) ==
    /\ pc[p] = "idle"
    /\ \E ms \in lists :
          /\ models' = [models EXCEPT ![p] = ms]
          /\ FlushModelsFrom(p, ms, 1, 0)
    /\ UNCHANGED <<dbVars, signals, si, envVars, histVars>>
    /\ UNCHANGED <<atomVars, consVars, extVars>>

\* flushmany with signal models only
Start(p) == StartWith(p, ModelLists)

\* flushmany with any explicit list
StartExplicit(p) == StartWith(p, ExplicitLists)

\* signals = query.all(): up to burst_count rows, locked, skipping locked rows
Select(p) ==
    /\ pc[p] = "select"
    /\ LET rows == SkipLockedSelect(CurrentModel(p),
                                    GetSignalBurstCount(CurrentModel(p)), p)
       IN /\ signals' = [signals EXCEPT ![p] = rows]
          /\ locks' = [locks EXCEPT ![p] = locks[p] \cup Range(rows)]
    /\ si' = [si EXCEPT ![p] = 0]
    /\ pc' = [pc EXCEPT ![p] = "send"]
    /\ UNCHANGED <<table, burst, hasBulk, models, mi, total, sent, numFailures,
                   result, err, envVars, histVars>>
    /\ UNCHANGED <<atomVars, consVars, extVars>>

\* instance.send_signalbus_message() returns
SendOne(p) ==
    /\ pc[p] = "send"
    /\ ~UsesBulkSend(p)
    /\ si[p] < Len(signals[p])
    /\ si' = [si EXCEPT ![p] = si[p] + 1]
    /\ delivered' = delivered \cup {signals[p][si[p] + 1]}
    /\ deliveredTx' = [deliveredTx EXCEPT ![p] = @ \cup {signals[p][si[p] + 1]}]
    /\ Invoke(p, SendCall("single", <<signals[p][si[p] + 1]>>, TRUE))
    /\ UNCHANGED <<dbVars, pc, models, mi, total, sent, signals, numFailures,
                   result, err, envVars, initial, removed, lost, batches,
                   failedBatch, sentBefore>>
    /\ UNCHANGED <<atomVars, consVars, extVars>>

\* instance.send_signalbus_message() raises: the error is no conflict, so the
\* retry wrapper lets it through, and it leaves flushmany
SendOneError(p) ==
    /\ pc[p] = "send"
    /\ ~UsesBulkSend(p)
    /\ si[p] < Len(signals[p])
    /\ sendErrors < MaxSendErrors
    /\ sendErrors' = sendErrors + 1
    /\ failedBatch' = [failedBatch EXCEPT ![p] = Range(signals[p])]
    /\ Invoke(p, SendCall("single", <<signals[p][si[p] + 1]>>, FALSE))
    /\ NoneSentBefore(p)
    /\ FlushModelsRaise(p, "DeliveryError")
    /\ UNCHANGED <<crashes, conflicts>>
    /\ UNCHANGED <<atomVars, consVars, extVars>>

\* model.send_signalbus_messages(instances) returns
SendMany(p) ==
    /\ pc[p] = "send"
    /\ UsesBulkSend(p)
    /\ si[p] = 0
    /\ si' = [si EXCEPT ![p] = Len(signals[p])]
    /\ delivered' = delivered \cup Range(signals[p])
    /\ deliveredTx' = [deliveredTx EXCEPT ![p] = @ \cup Range(signals[p])]
    /\ Invoke(p, SendCall("bulk", signals[p], TRUE))
    /\ UNCHANGED <<dbVars, pc, models, mi, total, sent, signals, numFailures,
                   result, err, envVars, initial, removed, lost, batches,
                   failedBatch, sentBefore>>
    /\ UNCHANGED <<atomVars, consVars, extVars>>

\* model.send_signalbus_messages(instances) raises (no row of the batch counts
\* as delivered)
SendManyError(p) ==
    /\ pc[p] = "send"
    /\ UsesBulkSend(p)
    /\ si[p] = 0
    /\ sendErrors < MaxSendErrors
    /\ sendErrors' = sendErrors + 1
    /\ failedBatch' = [failedBatch EXCEPT ![p] = Range(signals[p])]
    /\ Invoke(p, SendCall("bulk", signals[p], FALSE))
    /\ NoneSentBefore(p)
    /\ FlushModelsRaise(p, "DeliveryError")
    /\ UNCHANGED <<crashes, conflicts>>
    /\ UNCHANGED <<atomVars, consVars, extVars>>

\* the sends are over: session.delete(instance) for each instance, return n,
\* sent_count += n, session.commit(), session.expire_all(), the exit test; and
\* after the last batch _flush_models adds the count and takes the next model
Commit(p) ==
    /\ pc[p] = "send"
    /\ AllSent(p)
    /\ table' = table \ RowsToDelete(p)
    /\ removed' = [removed EXCEPT ![p] = @ \cup RowsToDelete(p)]
    /\ lost' = lost \cup (RowsToDelete(p) \ deliveredTx[p])
    /\ batches' = [batches EXCEPT ![p] = Append(@, Len(signals[p]))]
    /\ EndTransaction(p)
    /\ IF LastBatch(p)
       THEN FlushModelsFrom(p, models[p], mi[p] + 1,
                            total[p] + sent[p] + Len(signals[p]))
       ELSE /\ sent' = [sent EXCEPT ![p] = sent[p] + Len(signals[p])]
            /\ pc' = [pc EXCEPT ![p] = "select"]
            /\ UNCHANGED <<mi, total, numFailures, result, err>>
    /\ BatchOver(p)
    /\ NoneSentBefore(p)
    /\ UNCHANGED <<burst, hasBulk, models, envVars, initial, delivered,
                   failedBatch>>
    /\ UNCHANGED <<atomVars, consVars, extVars>>

\* the retry starting over with the first model of the list
RetryFromFirstModel(p) ==
    /\ EndTransaction(p)
    /\ numFailures' = [numFailures EXCEPT ![p] = numFailures[p] + 1]
    /\ sent' = [sent EXCEPT ![p] = 0]
    /\ pc' = [pc EXCEPT ![p] = "select"]
    /\ mi' = [mi EXCEPT ![p] = 1]
    /\ total' = [total EXCEPT ![p] = 0]
    /\ sentBefore' = [sentBefore EXCEPT ![p] = @ \cup deliveredTx[p]]
    /\ UNCHANGED <<table, burst, hasBulk, models, result, err,
                   initial, delivered, removed, lost, batches>>

\* the retry: the open transaction is rolled back and the wrapped
\* _flushmany_signals(model) is invoked again, for the model in hand
RetryFlushmanySignals(p) ==
    /\ EndTransaction(p)
    /\ numFailures' = [numFailures EXCEPT ![p] = numFailures[p] + 1]
    /\ sent' = [sent EXCEPT ![p] = 0]
    /\ pc' = [pc EXCEPT ![p] = "select"]
    /\ sentBefore' = [sentBefore EXCEPT ![p] = @ \cup deliveredTx[p]]
    /\ UNCHANGED <<table, burst, hasBulk, models, mi, total, result, err,
                   initial, delivered, removed, lost, batches>>

\* a conflict-class error reaches the retry wrapper: it counts the failure and
\* either retries or lets the error go
ConflictRaised(p) ==
    /\ IF RetryAgain(numFailures[p] + 1, FlushRetries)
       THEN RetryFlushmanySignals(p)
       ELSE /\ FlushModelsRaise(p, "DBSerializationError")
            /\ NoneSentBefore(p)
    /\ BatchOver(p)
    /\ UNCHANGED <<sendErrors, crashes, failedBatch>>
    /\ UNCHANGED <<atomVars, consVars, extVars>>

\* a conflict with the transaction of another flusher
OnConflict(p) ==
    /\ ConflictPossible(p)
    /\ conflicts' = conflicts + 1
    /\ ConflictRaised(p)

\* a conflict with a transaction of another program using the database
OutsideConflict(p) ==
    /\ conflicts < MaxOutsideConflicts
    /\ conflicts' = conflicts + 1
    /\ ConflictRaised(p)

\* query.all() raises a conflict-class error
SelectConflict(p) ==
    /\ pc[p] = "select"
    /\ OnConflict(p)

\* session.commit() raises a conflict-class error
CommitConflict(p) ==
    /\ pc[p] = "send"
    /\ AllSent(p)
    /\ OnConflict(p)

\* the flushing process dies; the server rolls its open transaction back
Crash(p) ==
    /\ InFlight(p)
    /\ crashes < MaxCrashes
    /\ crashes' = crashes + 1
    /\ EndTransaction(p)
    /\ pc' = [pc EXCEPT ![p] = "crashed"]
    /\ UNCHANGED <<table, burst, hasBulk, models, mi, total, sent, numFailures,
                   result, err, sendErrors, conflicts, initial, delivered,
                   removed, lost, batches, failedBatch>>
    /\ BatchOver(p)
    /\ NoneSentBefore(p)
    /\ UNCHANGED <<atomVars, consVars, extVars>>

Init == InitWith(MaxRows)

Next ==
    \E p \in Flushers :
        \/ Start(p)
        \/ Select(p)
        \/ SendOne(p)
        \/ SendOneError(p)
        \/ SendMany(p)
        \/ SendManyError(p)
        \/ Commit(p)
        \/ SelectConflict(p)
        \/ CommitConflict(p)
        \/ Crash(p)

Spec == Init /\ [][Next]_vars

\* A single flusher, with nothing else using the database: long enough tables
\* for two full batches and a partial one.
InitSingle == InitWith(2 * MaxBurst + 1)

NextSingle ==
    \E p \in {1} :
        \/ Start(p)
        \/ Select(p)
        \/ SendOne(p)
        \/ SendOneError(p)
        \/ SendMany(p)
        \/ SendManyError(p)
        \/ Commit(p)
        \/ Crash(p)

SpecSingle == InitSingle /\ [][NextSingle]_vars

\* A single flusher called with explicit lists of models, signal models or not.
InitLists == InitWith(MaxRows)

NextLists ==
    \E p \in {1} :
        \/ StartExplicit(p)
        \/ Select(p)
        \/ SendOne(p)
        \/ SendOneError(p)
        \/ SendMany(p)
        \/ SendManyError(p)
        \/ Commit(p)
        \/ Crash(p)

SpecLists == InitLists /\ [][NextLists]_vars

\* query.all() raises a conflict-class error, no other flusher being there
SelectOutsideConflict(p) ==
    /\ pc[p] = "select"
    /\ OutsideConflict(p)

\* session.commit() raises a conflict-class error, no other flusher being there
CommitOutsideConflict(p) ==
    /\ pc[p] = "send"
    /\ AllSent(p)
    /\ OutsideConflict(p)

\* A single flusher whose transactions conflict with those of other programs,
\* often enough for the retry wrapper to give up.
InitRetries == InitWith(MaxRows)

NextRetries ==
    \E p \in {1} :
        \/ Start(p)
        \/ Select(p)
        \/ SendOne(p)
        \/ SendMany(p)
        \/ Commit(p)
        \/ SelectOutsideConflict(p)
        \/ CommitOutsideConflict(p)

SpecRetries == InitRetries /\ [][NextRetries]_vars

\* A single flusher with nothing else using the database, every delivery
\* succeeding; a call that can take a step does take one.
InitBurst == InitWith(2 * MaxBurst + 1)

NextBurst ==
    \E p \in {1} :
        \/ Start(p)
        \/ Select(p)
        \/ SendOne(p)
        \/ SendMany(p)
        \/ Commit(p)

SpecBurst == InitBurst /\ [][NextBurst]_vars /\ WF_vars(NextBurst)

----------------------------------------------------------------------------
(* The session thread: calls of a retry-wrapped callable, as                *)
(* retry_on_deadlock(session, retries=R) makes them, and of an atomic-wrapped *)
(* function.                                                                *)

\* what the wrapped function raises
FunctionErrors == {ConflictError, "ZeroDivisionError", "RuntimeError"}
\* what leaves the function's body: its own errors and the database's
BodyErrors == FunctionErrors \cup {"IntegrityError"}
\* what session.flush() and session.commit() raise
SessionErrors == {ConflictError, "IntegrityError"}

\* an atomic wrapper that takes every call for an outermost one
NeverNestedCall == FALSE
\* atomic: if session_info.get(_ATOMIC_FLAG_SESSION_INFO_KEY): the call is a
\* nested one, and the function is executed directly
IsNestedCall == atomicFlag

\* a helper that lets the error go as it is
NoConversion(e) == e
\* retry_on_integrity_error: except IntegrityError: raise DBSerializationError
RetryOnIntegrityError(e) == IF e = "IntegrityError" THEN ConflictError ELSE e

\* the inner atomic-wrapped function is running
NestedRunning == nested \in {"direct", "outermost"}

InitAtomic ==
    /\ table = {} /\ initial = {}
    /\ burst = [t \in SignalModels |-> DefaultBurstCount]
    /\ hasBulk = [t \in SignalModels |-> FALSE]
    /\ CallsIdle
    /\ SessionIdle
    /\ ConsumerIdle
    /\ ExtIdle

\* session.flush(): the pending object is written and stays in the session
Flushed(o) == IF o = "pending" THEN "persistent" ELSE o

\* session.expunge_all(): the object leaves the session; a pending one, not
\* yet written, is dropped with what it holds
Expunged(o) ==
    IF o = "persistent" THEN "detached"
    ELSE IF o = "pending" THEN "dropped" ELSE o

\* session.commit() called before session.expunge_all()
ObjBeforeExpunge == obj

\* session.expunge_all(); session.commit(): the object as the commit finds it
ObjAtCommit == Expunged(obj)

\* the assert statement left out
AssertionSkipped == TRUE

\* retry_on_integrity_error: assert session.info.get(_ATOMIC_FLAG_SESSION_INFO_KEY)
AssertionHolds == atomicFlag

\* the inner function's write undone when the function raises
InnerWriteRolledBack(how) == "none"

\* the object the inner function adds to the session before it returns or
\* raises, as its caller finds it: pending in the outer call's transaction
\* when the function was executed directly, and written or rolled back by an
\* outermost call of its own
InnerWrite(how) == IF how = "direct" THEN "pending" ELSE "none"

\* the counters and the history of a call that starts
NewCall ==
    /\ calls' = calls + 1
    /\ afailures' = 0 /\ executions' = 0 /\ commits' = 0 /\ rollbacks' = 0
    /\ outcome' = "none"
    /\ first' = "none" /\ last' = "none" /\ allConflict' = TRUE
    /\ flushed' = "none" /\ committed' = "none"
    /\ nested' = "none" /\ innerEnds' = 0 /\ allIntegrity' = TRUE
    /\ obj' = "none" /\ objAtCommit' = "none" /\ innerObj' = "none"
    /\ prior' = IF akind = "atomic" THEN outcome ELSE "none"

\* the wrapper around the callable lets the error e go: the call raises it
RetryCallRaise(e) ==
    /\ apc' = "done"
    /\ outcome' = e
    /\ UNCHANGED <<atomicFlag, commits, rollbacks, afailures>>

\* an error leaves the atomic block without the rollback
AtomicRaiseNoRollback(e) ==
    /\ atomicFlag' = FALSE
    /\ apc' = "done"
    /\ outcome' = e
    /\ UNCHANGED <<rollbacks, afailures>>

\* an error leaves the atomic block with the flag still on
AtomicRaiseFlagLeft(e) ==
    /\ rollbacks' = rollbacks + 1
    /\ UNCHANGED atomicFlag
    /\ apc' = "done"
    /\ outcome' = e
    /\ UNCHANGED afailures

\* atomic: except Exception: session.rollback(); raise; finally: the flag off
AtomicRaise(e) ==
    /\ rollbacks' = rollbacks + 1
    /\ atomicFlag' = FALSE
    /\ apc' = "done"
    /\ outcome' = e
    /\ UNCHANGED afailures

\* session.commit() put under the retry wrapper as well
CommitRaisesRetried(e) ==
    /\ commits' = commits + 1
    /\ IF IsConflictError(e) /\ RetryAgain(afailures + 1, aretries)
       THEN /\ afailures' = afailures + 1
            /\ rollbacks' = rollbacks + 1
            /\ apc' = "body"
            /\ UNCHANGED <<atomicFlag, outcome>>
       ELSE AtomicRaise(e)

\* session.commit() raises e: the call was made outside f, so the error goes
\* to the except clause of the wrapper
CommitRaises(e) ==
    /\ commits' = commits + 1
    /\ AtomicRaise(e)

\* the error e reaches the retry wrapper: a conflict is counted and, while
\* retries are left, the session is rolled back and the callable invoked
\* again; any other error, and the last conflict, goes to the caller
RetryHandle(e) ==
    IF IsConflictError(e) /\ RetryAgain(afailures + 1, aretries)
    THEN /\ afailures' = afailures + 1
         /\ rollbacks' = rollbacks + 1
         /\ apc' = "body"
         /\ UNCHANGED <<atomicFlag, commits, outcome>>
    ELSE IF akind = "atomic"
         THEN AtomicRaise(e) /\ UNCHANGED commits
         ELSE RetryCallRaise(e)

\* f = retry_on_deadlock(session, retries=R)(callable); f()
CallRetry ==
    /\ apc = "idle"
    /\ calls < MaxCalls
    /\ \E R \in 0..MaxRetries : aretries' = R
    /\ akind' = "retry"
    /\ apc' = "body"
    /\ NewCall
    /\ UNCHANGED <<atomicFlag, dbVars, callVars, envVars, histVars, consVars, extVars>>

\* an atomic-wrapped function is called from outside any atomic function.
\* With the flag off the flag is set and f, the function and session.flush()
\* under the retry wrapper, is invoked; were the flag on, the wrapper would
\* execute the function directly ("direct": no retry, no commit)
CallAtomic ==
    /\ apc = "idle"
    /\ calls < MaxCalls
    /\ IF IsNestedCall
       THEN /\ akind' = "direct"
            /\ aretries' = 0
            /\ UNCHANGED atomicFlag
       ELSE /\ akind' = "atomic"
            /\ aretries' = DefaultRetries
            /\ atomicFlag' = TRUE
    /\ apc' = "body"
    /\ NewCall
    /\ UNCHANGED <<dbVars, callVars, envVars, histVars, consVars, extVars>>

\* the retry wrapper invokes the function, which returns
InvokeReturns ==
    /\ apc = "body"
    /\ ~NestedRunning
    /\ executions' = executions + 1
    /\ first' = IF executions = 0 THEN "ok" ELSE first
    /\ last' = "ok"
    /\ allConflict' = FALSE
    /\ allIntegrity' = FALSE
    /\ UNCHANGED <<nested, innerEnds>>
    /\ IF akind = "atomic"
       THEN /\ apc' = "flush"
            /\ UNCHANGED outcome
       ELSE /\ apc' = "done"
            /\ outcome' = "returned"
    /\ UNCHANGED <<akind, aretries, atomicFlag, afailures, commits, rollbacks,
                   calls, flushed, committed>>
    /\ obj' = IF akind = "atomic" THEN "pending" ELSE obj
    /\ UNCHANGED <<objAtCommit, innerObj>>
    /\ UNCHANGED <<prior, dbVars, callVars, envVars, histVars, consVars, extVars>>

\* the retry wrapper invokes the function, which raises: the error raw, as
\* it is or, in an atomic call, from inside "with retry_on_integrity_error"
InvokeRaises ==
    /\ apc = "body"
    /\ ~NestedRunning
    /\ \E raw \in BodyErrors,
          guarded \in (IF akind = "atomic" THEN BOOLEAN ELSE {FALSE}) :
          LET e == IF guarded THEN RetryOnIntegrityError(raw) ELSE raw IN
          /\ first' = IF executions = 0 THEN e ELSE first
          /\ last' = e
          /\ allConflict' = (allConflict /\ IsConflictError(e))
          /\ allIntegrity' = (allIntegrity /\ guarded /\ raw = "IntegrityError")
          /\ RetryHandle(e)
    /\ nested' = IF apc' = "body" THEN "none" ELSE nested
    /\ UNCHANGED innerEnds
    /\ executions' = executions + 1
    /\ UNCHANGED <<akind, aretries, calls, flushed, committed>>
    /\ obj' = "none" /\ innerObj' = "none"
    /\ UNCHANGED objAtCommit
    /\ UNCHANGED <<prior, dbVars, callVars, envVars, histVars, consVars, extVars>>

\* atomic: session.flush() after the function, still under the retry wrapper
SessionFlush ==
    /\ apc = "flush"
    /\ \/ /\ flushed' = "ok"
          /\ apc' = "commit"
          /\ UNCHANGED <<atomicFlag, afailures, commits, rollbacks, outcome>>
       \/ \E e \in SessionErrors :
             /\ flushed' = e
             /\ RetryHandle(e)
    /\ nested' = IF apc' = "body" THEN "none" ELSE nested
    /\ UNCHANGED <<akind, aretries, executions, calls, first, last, allConflict,
                   committed, innerEnds, allIntegrity>>
    /\ obj' = IF flushed' = "ok" THEN Flushed(obj) ELSE "none"
    /\ innerObj' = IF flushed' = "ok" THEN Flushed(innerObj) ELSE "none"
    /\ UNCHANGED objAtCommit
    /\ UNCHANGED <<prior, dbVars, callVars, envVars, histVars, consVars, extVars>>

\* atomic: session.expunge_all(); session.commit(); return result
SessionCommit ==
    /\ apc = "commit"
    /\ \/ /\ committed' = "ok"
          /\ commits' = commits + 1
          /\ atomicFlag' = FALSE
          /\ apc' = "done"
          /\ outcome' = "returned"
          /\ UNCHANGED <<rollbacks, afailures>>
       \/ \E e \in SessionErrors :
             /\ committed' = e
             /\ CommitRaises(e)
    /\ UNCHANGED <<akind, aretries, executions, calls, first, last, allConflict,
                   flushed, nested, innerEnds, allIntegrity>>
    /\ objAtCommit' = ObjAtCommit
    /\ obj' = Expunged(obj)
    /\ innerObj' = Expunged(innerObj)
    /\ UNCHANGED <<prior, dbVars, callVars, envVars, histVars, consVars, extVars>>

\* "with retry_on_integrity_error(): <operation>" is entered from outside any
\* wrapped function
CallGuarded ==
    /\ apc = "idle"
    /\ calls < MaxCalls
    /\ akind' = "guard"
    /\ aretries' = 0
    /\ apc' = "guard"
    /\ NewCall
    /\ UNCHANGED <<atomicFlag, dbVars, callVars, envVars, histVars, consVars, extVars>>

\* retry_on_integrity_error: the assertion first; only when it holds
\* session.flush(), the operation, which adds an object, and session.flush()
GuardRuns ==
    /\ apc = "guard"
    /\ apc' = "done"
    /\ IF AssertionHolds
       THEN /\ flushed' = "ok"
            /\ executions' = executions + 1
            /\ obj' = "persistent"
            /\ outcome' = "returned"
       ELSE /\ outcome' = "AssertionError"
            /\ UNCHANGED <<flushed, executions, obj>>
    /\ UNCHANGED <<akind, aretries, atomicFlag, afailures, commits, rollbacks,
                   calls, first, last, allConflict, committed, nested,
                   innerEnds, allIntegrity, objAtCommit, innerObj>>
    /\ UNCHANGED <<prior, dbVars, callVars, envVars, histVars, consVars, extVars>>

\* the caller has the result or the error, and goes on
CallOver ==
    /\ apc = "done"
    /\ apc' = "idle"
    /\ UNCHANGED <<akind, aretries, atomicFlag, afailures, executions, commits,
                   rollbacks, outcome, calls, first, last, allConflict, flushed,
                   committed, nested, innerEnds, allIntegrity>>
    /\ UNCHANGED <<obj, objAtCommit, innerObj>>
    /\ UNCHANGED <<prior, dbVars, callVars, envVars, histVars, consVars, extVars>>

\* the function of an atomic call calls an atomic-wrapped function: with the
\* flag on the wrapper executes it directly; with the flag off it would make
\* an outermost call of its own, which sets the flag
NestedCall ==
    /\ apc = "body"
    /\ akind = "atomic"
    /\ nested = "none"
    /\ IF IsNestedCall
       THEN /\ nested' = "direct"
            /\ UNCHANGED atomicFlag
       ELSE /\ nested' = "outermost"
            /\ atomicFlag' = TRUE
    /\ UNCHANGED <<apc, akind, aretries, afailures, executions, commits,
                   rollbacks, outcome, calls, first, last, allConflict, flushed,
                   committed, innerEnds, allIntegrity>>
    /\ UNCHANGED <<obj, objAtCommit, innerObj>>
    /\ UNCHANGED <<prior, dbVars, callVars, envVars, histVars, consVars, extVars>>

\* the inner function returns: a directly executed one returns to the outer
\* function; an outermost call of its own would commit and clear the flag
NestedReturns ==
    /\ apc = "body"
    /\ NestedRunning
    /\ nested' = "returned"
    /\ IF nested = "outermost"
       THEN /\ commits' = commits + 1
            /\ innerEnds' = innerEnds + 1
            /\ atomicFlag' = FALSE
       ELSE UNCHANGED <<commits, innerEnds, atomicFlag>>
    /\ UNCHANGED <<apc, akind, aretries, afailures, executions, rollbacks,
                   outcome, calls, first, last, allConflict, flushed, committed,
                   allIntegrity>>
    /\ innerObj' = InnerWrite(nested)
    /\ UNCHANGED <<obj, objAtCommit>>
    /\ UNCHANGED <<prior, dbVars, callVars, envVars, histVars, consVars, extVars>>

\* the inner function raises: from a directly executed one the error reaches
\* the outer function; an outermost call of its own would roll back and
\* clear the flag first
NestedRaises ==
    /\ apc = "body"
    /\ NestedRunning
    /\ \E e \in BodyErrors : nested' = e
    /\ IF nested = "outermost"
       THEN /\ rollbacks' = rollbacks + 1
            /\ innerEnds' = innerEnds + 1
            /\ atomicFlag' = FALSE
       ELSE UNCHANGED <<rollbacks, innerEnds, atomicFlag>>
    /\ UNCHANGED <<apc, akind, aretries, afailures, executions, commits,
                   outcome, calls, first, last, allConflict, flushed, committed,
                   allIntegrity>>
    /\ innerObj' = InnerWrite(nested)
    /\ UNCHANGED <<obj, objAtCommit>>
    /\ UNCHANGED <<prior, dbVars, callVars, envVars, histVars, consVars, extVars>>

NextAtomic ==
    \/ CallRetry
    \/ CallAtomic
    \/ NestedCall
    \/ NestedReturns
    \/ NestedRaises
    \/ InvokeReturns
    \/ InvokeRaises
    \/ SessionFlush
    \/ SessionCommit
    \/ CallGuarded
    \/ GuardRuns
    \/ CallOver

SpecAtomic == InitAtomic /\ [][NextAtomic]_vars

----------------------------------------------------------------------------
(* The broker consumer: the thread that runs Consumer.start() (the I/O     *)
(* thread), its worker threads, and a thread that calls Consumer.stop().   *)

cfgVars == <<threads, prefetchCount, drainingMode>>
restVars == <<dbVars, callVars, envVars, histVars, atomVars, extVars>>

\* the values of prefetch_count tried: no limit, and the default, which lets
\* the broker keep one message unacknowledged (with up to MaxDeliveries
\* messages a limit of MaxDeliveries or more acts as no limit does)
PrefetchCounts == {0, 1}

\* how a call of process_message ends
CallbackResults == {"true", "false", "raise"}

Max(a, b) == IF a >= b THEN a ELSE b

\* queue.Queue(max(self.prefetch_count // 3, self.threads))
QueueSize == Max(prefetchCount \div 3, threads)

\* a queue that takes any number of items
UnboundedQueue == TRUE
\* self._work_queue.put(t) goes through only when the queue is not full
QueueHasRoom == Len(workQueue) < QueueSize

\* a get that leaves the item on the queue
QueueKept == workQueue
\* work_queue.get(): the item is taken off the queue
RestOfQueue == Tail(workQueue)

\* deliveries neither acknowledged nor rejected yet
Unacked == Cardinality({t \in 1..nextTag : executed[t] = <<>>})

\* channel.basic_qos(prefetch_size, prefetch_count): the broker sends a
\* message only while fewer than prefetch_count are unacknowledged (0: no limit)
BrokerCanDeliver ==
    /\ nextTag < MaxDeliveries
    /\ prefetchCount = 0 \/ Unacked < prefetchCount

\* partial(channel.basic_ack, delivery_tag=delivery_tag)
BasicAck(t) == [op |-> "basic_ack", tag |-> t, requeue |-> FALSE]
\* partial(channel.basic_reject, delivery_tag=delivery_tag, requeue=False)
BasicReject(t) == [op |-> "basic_reject", tag |-> t, requeue |-> FALSE]

\* a worker that acknowledges whatever the callback returned
AlwaysAck(ok, t) == BasicAck(t)
\* _process_message: if ok: basic_ack, else: basic_reject without requeue
CallFor(ok, t) == IF ok THEN BasicAck(t) ELSE BasicReject(t)

\* the worker calls the channel itself
HandOffDirect(w, cb) ==
    /\ executed' = [executed EXCEPT ![cb.tag] = Append(@, cb)]
    /\ channelUsers' = channelUsers \cup {w}
    /\ UNCHANGED <<callbacks, handoffs>>

\* self.add_callback(...): connection.add_callback_threadsafe queues the call
\* for the thread that runs the connection
HandOff(w, cb) ==
    /\ callbacks' = Append(callbacks, cb)
    /\ handoffs' = [handoffs EXCEPT ![cb.tag] = Append(@, cb)]
    /\ UNCHANGED <<executed, channelUsers>>

\* Consumer.stop(): self._stopped = True
SetStopped ==
    /\ stopped' = TRUE
    /\ flagTag' = IF stopped THEN flagTag ELSE nextTag

\* a worker that swallows the error of the callback
OnErrorSwallowed(w) ==
    /\ failed' = failed \cup {w}
    /\ UNCHANGED <<stopped, flagTag, isRunning>>

\* _process_message, except Exception: self.consumer._on_error(self.name, e),
\* which calls Consumer.stop(); self.stop(); return
OnError(w) ==
    /\ SetStopped
    /\ isRunning' = [isRunning EXCEPT ![w] = FALSE]
    /\ failed' = failed \cup {w}

InitConsumer ==
    /\ table = {} /\ initial = {}
    /\ burst = [t \in SignalModels |-> DefaultBurstCount]
    /\ hasBulk = [t \in SignalModels |-> FALSE]
    /\ CallsIdle
    /\ SessionIdle
    /\ \E th \in 1..Cardinality(Workers), pf \in PrefetchCounts, dm \in BOOLEAN :
          ConsumerNew(th, pf, dm)
    /\ ExtIdle

\* start(), up to the loop: the flag off, a new queue, the connection and the
\* channel, the workers created and started
StartConsumer ==
    /\ iopc \in {"new", "terminated"}
    /\ starts < MaxStarts
    /\ starts' = starts + 1
    /\ stopped' = FALSE
    /\ workQueue' = <<>>
    /\ connected' = TRUE
    /\ channelUsers' = {IoThread}
    /\ wpc' = [w \in Workers |-> IF w <= threads THEN "started" ELSE "none"]
    /\ isRunning' = [w \in Workers |-> FALSE]
    /\ item' = [w \in Workers |-> 0]
    /\ callbacks' = <<>>
    /\ nextTag' = 0 /\ inHand' = 0 /\ ioi' = 0
    /\ results' = [t \in Tags |-> <<>>]
    /\ handoffs' = [t \in Tags |-> <<>>]
    /\ executed' = [t \in Tags |-> <<>>]
    /\ failed' = {} /\ flagTag' = -1 /\ stopCalled' = FALSE
    /\ iopc' = "check"
    /\ UNCHANGED <<cfgVars, restVars>>

\* while not self._stopped, and at the end of an iteration of the for loop
\* if self._stopped: break
IoCheck ==
    /\ iopc = "check"
    /\ IF stopped
       THEN iopc' = "stop" /\ ioi' = 1
       ELSE iopc' = "consume" /\ UNCHANGED ioi
    /\ UNCHANGED <<cfgVars, inHand, stopped, workQueue, connected, callbacks,
                   nextTag, wpc, isRunning, item, results, handoffs, executed,
                   channelUsers, failed, flagTag, stopCalled, starts, restVars>>

\* a consumer registered with auto_ack=True: the broker takes the message
\* for acknowledged when it sends it
AutoAck(t) == [executed EXCEPT ![t] = <<BasicAck(t)>>]

\* channel.consume(self.queue, inactivity_timeout=1.0), auto_ack left False:
\* the delivery of t acknowledges nothing
AfterDelivery(t) == executed

\* channel.consume yields a delivery: method is not None
IoDelivery ==
    /\ iopc = "consume"
    /\ BrokerCanDeliver
    /\ nextTag' = nextTag + 1
    /\ inHand' = nextTag + 1
    /\ executed' = AfterDelivery(nextTag + 1)
    /\ iopc' = "put"
    /\ UNCHANGED <<cfgVars, ioi, stopped, workQueue, connected, callbacks, wpc,
                   isRunning, item, results, handoffs, channelUsers,
                   failed, flagTag, stopCalled, starts, restVars>>

\* channel.consume yields (None, None, None) after inactivity_timeout; in
\* draining mode, once the inactivity counter is over the threshold:
\* channel.cancel() and self._make_draining_pause()
IoTimeout ==
    /\ iopc = "consume"
    /\ \/ iopc' = "check"
       \/ drainingMode /\ iopc' = "pause"
    /\ UNCHANGED <<cfgVars, ioi, inHand, stopped, workQueue, connected,
                   callbacks, nextTag, wpc, isRunning, item, results, handoffs,
                   executed, channelUsers, failed, flagTag, stopCalled, starts,
                   restVars>>

\* _make_draining_pause is over: the flag is on, or the time is up
IoPauseEnds ==
    /\ iopc = "pause"
    /\ iopc' = "check"
    /\ UNCHANGED <<cfgVars, ioi, inHand, stopped, workQueue, connected,
                   callbacks, nextTag, wpc, isRunning, item, results, handoffs,
                   executed, channelUsers, failed, flagTag, stopCalled, starts,
                   restVars>>

\* while it waits in channel.consume or in connection.sleep, the I/O thread
\* executes a call handed over by a worker
IoExecuteCallback ==
    /\ iopc \in {"consume", "pause"}
    /\ callbacks # <<>>
    /\ callbacks' = Tail(callbacks)
    /\ executed' = [executed EXCEPT ![Head(callbacks).tag] =
                                         Append(@, Head(callbacks))]
    /\ channelUsers' = channelUsers \cup {IoThread}
    /\ UNCHANGED <<cfgVars, iopc, ioi, inHand, stopped, workQueue, connected,
                   nextTag, wpc, isRunning, item, results, handoffs, failed,
                   flagTag, stopCalled, starts, restVars>>

\* except pika.exceptions.ChannelClosed: pass
IoChannelClosed ==
    /\ iopc = "consume"
    /\ iopc' = "stop" /\ ioi' = 1
    /\ UNCHANGED <<cfgVars, inHand, stopped, workQueue, connected, callbacks,
                   nextTag, wpc, isRunning, item, results, handoffs, executed,
                   channelUsers, failed, flagTag, stopCalled, starts, restVars>>

\* self._work_queue.put(t): blocks while the queue is full
IoPut ==
    /\ iopc = "put"
    /\ QueueHasRoom
    /\ workQueue' = Append(workQueue, inHand)
    /\ inHand' = 0
    /\ iopc' = "check"
    /\ UNCHANGED <<cfgVars, ioi, stopped, connected, callbacks, nextTag, wpc,
                   isRunning, item, results, handoffs, executed, channelUsers,
                   failed, flagTag, stopCalled, starts, restVars>>

\* for worker in workers: worker.stop()
IoStopWorker ==
    /\ iopc = "stop"
    /\ isRunning' = [isRunning EXCEPT ![ioi] = FALSE]
    /\ IF ioi < threads
       THEN ioi' = ioi + 1 /\ UNCHANGED iopc
       ELSE ioi' = 1 /\ iopc' = "join"
    /\ UNCHANGED <<cfgVars, inHand, stopped, workQueue, connected, callbacks,
                   nextTag, wpc, item, results, handoffs, executed,
                   channelUsers, failed, flagTag, stopCalled, starts, restVars>>

\* a join that does not wait
JoinSkipped(w) == TRUE

\* worker.join() returns once run() of the worker has ended
Joined(w) == wpc[w] = "exited"

\* for worker in workers: worker.join()
IoJoinWorker ==
    /\ iopc = "join"
    /\ Joined(ioi)
    /\ IF ioi < threads
       THEN ioi' = ioi + 1 /\ UNCHANGED iopc
       ELSE ioi' = 0 /\ iopc' = "purge"
    /\ UNCHANGED <<cfgVars, inHand, stopped, workQueue, connected, callbacks,
                   nextTag, wpc, isRunning, item, results, handoffs, executed,
                   channelUsers, failed, flagTag, stopCalled, starts, restVars>>

\* channel.cancel(); self._purge(): the flag on, the queue dropped, the
\* connection closed; raise TerminatedConsumtion()
IoPurge ==
    /\ iopc = "purge"
    /\ SetStopped
    /\ workQueue' = <<>>
    /\ connected' = FALSE
    /\ channelUsers' = channelUsers \cup {IoThread}
    /\ iopc' = "terminated"
    /\ UNCHANGED <<cfgVars, ioi, inHand, callbacks, nextTag, wpc, isRunning,
                   item, results, handoffs, executed, failed, stopCalled,
                   starts, restVars>>

\* another thread, or a signal handler, calls Consumer.stop() while start()
\* is executing
ExternalStop ==
    /\ iopc \notin {"new", "terminated", "lost"}
    /\ ~stopCalled
    /\ stopCalled' = TRUE
    /\ SetStopped
    /\ UNCHANGED <<cfgVars, iopc, ioi, inHand, workQueue, connected, callbacks,
                   nextTag, wpc, isRunning, item, results, handoffs, executed,
                   channelUsers, failed, starts, restVars>>

\* run() begins: self.is_running = True
WorkerRun(w) ==
    /\ wpc[w] = "started"
    /\ isRunning' = [isRunning EXCEPT ![w] = TRUE]
    /\ wpc' = [wpc EXCEPT ![w] = "test"]
    /\ UNCHANGED <<cfgVars, iopc, ioi, inHand, stopped, workQueue, connected,
                   callbacks, nextTag, item, results, handoffs, executed,
                   channelUsers, failed, flagTag, stopCalled, starts, restVars>>

\* while self.is_running
WorkerTest(w) ==
    /\ wpc[w] = "test"
    /\ wpc' = [wpc EXCEPT ![w] = IF isRunning[w] THEN "get" ELSE "exited"]
    /\ UNCHANGED <<cfgVars, iopc, ioi, inHand, stopped, workQueue, connected,
                   callbacks, nextTag, isRunning, item, results, handoffs,
                   executed, channelUsers, failed, flagTag, stopCalled, starts,
                   restVars>>

\* args = work_queue.get(timeout=1.0) returns the oldest item
WorkerGet(w) ==
    /\ wpc[w] = "get"
    /\ workQueue # <<>>
    /\ item' = [item EXCEPT ![w] = Head(workQueue)]
    /\ workQueue' = RestOfQueue
    /\ wpc' = [wpc EXCEPT ![w] = "process"]
    /\ UNCHANGED <<cfgVars, iopc, ioi, inHand, stopped, connected, callbacks,
                   nextTag, isRunning, results, handoffs, executed,
                   channelUsers, failed, flagTag, stopCalled, starts, restVars>>

\* work_queue.get(timeout=1.0) raises queue.Empty: continue
WorkerGetTimeout(w) ==
    /\ wpc[w] = "get"
    /\ workQueue = <<>>
    /\ wpc' = [wpc EXCEPT ![w] = "test"]
    /\ UNCHANGED <<cfgVars, iopc, ioi, inHand, stopped, workQueue, connected,
                   callbacks, nextTag, isRunning, item, results, handoffs,
                   executed, channelUsers, failed, flagTag, stopCalled, starts,
                   restVars>>

\* _process_message is called with the item; work_queue.task_done()
WorkerProcess(w) ==
    /\ wpc[w] = "process"
    /\ \E r \in CallbackResults :
          /\ results' = [results EXCEPT ![item[w]] = Append(@, r)]
          /\ IF r = "raise"
             THEN /\ OnError(w)
                  /\ UNCHANGED <<callbacks, handoffs, executed, channelUsers>>
             ELSE /\ HandOff(w, CallFor(r = "true", item[w]))
                  /\ UNCHANGED <<stopped, flagTag, isRunning, failed>>
    /\ wpc' = [wpc EXCEPT ![w] = "test"]
    /\ item' = [item EXCEPT ![w] = 0]
    /\ UNCHANGED <<cfgVars, iopc, ioi, inHand, workQueue, connected, nextTag,
                   stopCalled, starts, restVars>>

NextConsumer ==
    \/ StartConsumer
    \/ IoCheck
    \/ IoDelivery
    \/ IoTimeout
    \/ IoPauseEnds
    \/ IoExecuteCallback
    \/ IoChannelClosed
    \/ IoPut
    \/ IoStopWorker
    \/ IoJoinWorker
    \/ IoPurge
    \/ ExternalStop
    \/ \E w \in Workers :
          \/ WorkerRun(w)
          \/ WorkerTest(w)
          \/ WorkerGet(w)
          \/ WorkerGetTimeout(w)
          \/ WorkerProcess(w)

SpecConsumer == InitConsumer /\ [][NextConsumer]_vars

\* the connection is lost while start() waits in channel.consume or in
\* connection.sleep: pika raises a connection error, which is no
\* ChannelClosed, so no except clause of start() takes it and it leaves
\* start() as it is, the rest of start() not executed
IoConnectionLost ==
    /\ iopc \in {"consume", "pause"}
    /\ connected' = FALSE
    /\ iopc' = "lost"
    /\ UNCHANGED <<cfgVars, ioi, inHand, stopped, workQueue, callbacks,
                   nextTag, wpc, isRunning, item, results, handoffs, executed,
                   channelUsers, failed, flagTag, stopCalled, starts, restVars>>

\* The consumer with a connection that can be lost.
InitLost == InitConsumer

NextLost ==
    \/ NextConsumer
    \/ IoConnectionLost

SpecLost == InitLost /\ [][NextLost]_vars

----------------------------------------------------------------------------
(* The draining pauses: two consumer instances in draining mode and the    *)
(* wall clock they read. The clock counts whole seconds.                   *)

Min(a, b) == IF a < b THEN a ELSE b

\* _make_draining_pause: pause_until = epoch + ((epoch + dps) % dps)
PauseUntil(e, dps) == e + ((e + dps) % dps)

\* the pause doubled without the cap
DoubledPause(dps) == 2 * dps

\* _make_draining_pause: min(2.0 * dps, 3600.0)
NextPauseSeconds(dps) == Min(2 * dps, MaxDrainingPauseSeconds)

\* start() does not assign _draining_pause_seconds
PauseSecondsAtStart(c) == drainingPauseSeconds[c]

InitDrain ==
    /\ table = {} /\ initial = {}
    /\ burst = [t \in SignalModels |-> DefaultBurstCount]
    /\ hasBulk = [t \in SignalModels |-> FALSE]
    /\ CallsIdle
    /\ SessionIdle
    /\ ConsumerNew(1, 1, TRUE)
    /\ \E t \in 0..MaxStartTime : DrainNew(t)
    /\ EventsGiven(0, 0, None, None)
    /\ PollNew(FALSE)

\* a second passes
Tick ==
    /\ now < MaxTime
    /\ now' = now + 1
    /\ UNCHANGED <<dmode, drainingPauseSeconds, epoch, pauseUntil, appVars, eventVars, pollVars>>

\* start() of instance c, new or after an earlier start() has terminated
DrainStart(c) ==
    /\ dmode[c] \in {"new", "terminated"}
    /\ dmode' = [dmode EXCEPT ![c] = "consuming"]
    /\ drainingPauseSeconds' =
          [drainingPauseSeconds EXCEPT ![c] = PauseSecondsAtStart(c)]
    /\ UNCHANGED <<now, epoch, pauseUntil, appVars, eventVars, pollVars>>

\* the inactivity counter has passed the threshold: channel.cancel() and the
\* first lines of _make_draining_pause
DrainPauseBegins(c) ==
    /\ dmode[c] = "consuming"
    /\ dmode' = [dmode EXCEPT ![c] = "pause"]
    /\ epoch' = [epoch EXCEPT ![c] = now]
    /\ pauseUntil' =
          [pauseUntil EXCEPT ![c] = PauseUntil(now, drainingPauseSeconds[c])]
    /\ UNCHANGED <<now, drainingPauseSeconds, appVars, eventVars, pollVars>>

\* the loop of _make_draining_pause ends, by the clock (the consumption goes
\* on) or by the stop flag (start() terminates), and the pause is doubled
DrainPauseEnds(c) ==
    /\ dmode[c] = "pause"
    /\ \/ /\ now >= pauseUntil[c]
          /\ dmode' = [dmode EXCEPT ![c] = "consuming"]
       \/ dmode' = [dmode EXCEPT ![c] = "terminated"]
    /\ drainingPauseSeconds' =
          [drainingPauseSeconds EXCEPT
              ![c] = NextPauseSeconds(drainingPauseSeconds[c])]
    /\ epoch' = [epoch EXCEPT ![c] = 0]
    /\ pauseUntil' = [pauseUntil EXCEPT ![c] = 0]
    /\ UNCHANGED <<now, appVars, eventVars, pollVars>>

\* start() terminates while consuming: stop(), an error, the connection lost
DrainTerminate(c) ==
    /\ dmode[c] = "consuming"
    /\ dmode' = [dmode EXCEPT ![c] = "terminated"]
    /\ UNCHANGED <<now, drainingPauseSeconds, epoch, pauseUntil, appVars, eventVars, pollVars>>

NextDrain ==
    \/ Tick
    \/ \E c \in Consumers :
          \/ DrainStart(c)
          \/ DrainPauseBegins(c)
          \/ DrainPauseEnds(c)
          \/ DrainTerminate(c)

SpecDrain == InitDrain /\ [][NextDrain]_vars

----------------------------------------------------------------------------
(* is_later_event: timestamps are counted in ticks of half a second from   *)
(* some instant, sequential numbers are 32-bit signed integers.            *)

\* the ticks of the timestamps in one second
TicksPerSecond == 2

\* the largest and the smallest 32-bit signed integer
MaxInt32 == 2147483647
MinInt32 == (0 - MaxInt32) - 1

\* the timestamps and the sequential numbers tried
Timestamps == 0..MaxTs
Seqnums == {MinInt32, -1, 0, 1, 1000, MaxInt32}

\* _TD_PLUS_2SECONDS = timedelta(seconds=2); _TD_MINUS_2SECONDS is its negative
TdTwoSeconds == 2 * TicksPerSecond

\* n % 0x100000000 in two 16-bit halves, the high and the low one
Half == 65536
HighHalf(n) ==
    IF n >= 0 THEN n \div Half ELSE ((n + MaxInt32) + 1) \div Half + 32768
LowHalf(n) ==
    IF n >= 0 THEN n % Half ELSE ((n + MaxInt32) + 1) % Half

\* (a - b) % 0x100000000, in halves
DiffLow(a, b) == (LowHalf(a) - LowHalf(b)) % Half
DiffHigh(a, b) ==
    (HighHalf(a) - HighHalf(b) - (IF LowHalf(a) < LowHalf(b) THEN 1 ELSE 0))
       % Half

\* 0 < (seqnum - other_seqnum) % 0x100000000 < 0x80000000
LaterSeqnum(a, b) ==
    /\ DiffHigh(a, b) # 0 \/ DiffLow(a, b) # 0
    /\ DiffHigh(a, b) < 32768

\* is_later_event((t, n), (ot, on))
IsLaterEvent(t, n, ot, on) ==
    IF ot = None THEN TRUE
    ELSE LET advance == t - ot[1] IN
         IF advance >= TdTwoSeconds THEN TRUE
         ELSE IF advance <= 0 - TdTwoSeconds THEN FALSE
         ELSE on = None \/ LaterSeqnum(n, on[1])

Optional(S) == {None} \cup {Some(x) : x \in S}

InitEvents ==
    /\ table = {} /\ initial = {}
    /\ burst = [t \in SignalModels |-> DefaultBurstCount]
    /\ hasBulk = [t \in SignalModels |-> FALSE]
    /\ CallsIdle
    /\ SessionIdle
    /\ ConsumerIdle
    /\ DrainNew(0)
    /\ \E t \in Timestamps, n \in Seqnums,
          ot \in Optional(Timestamps), on \in Optional(Seqnums) :
          EventsGiven(t, n, ot, on)
    /\ PollNew(FALSE)

\* the call returns
CallIsLaterEvent ==
    /\ isLater = "none"
    /\ isLater' = IF IsLaterEvent(ts, seqnum, otherTs, otherSeqnum)
                  THEN "true" ELSE "false"
    /\ UNCHANGED <<ts, seqnum, otherTs, otherSeqnum, appVars, drainVars, pollVars>>

NextEvents == CallIsLaterEvent

SpecEvents == InitEvents /\ [][NextEvents]_vars

----------------------------------------------------------------------------
(* The consumption loop of start(), poll by poll: the inactivity counter,   *)
(* the draining pauses and the cancelling and resuming of the consumption.  *)
(* The workers and the queue are left out: a delivery is put on the queue.  *)

\* the pause made as soon as the counter is at the threshold
CounterAtThreshold(n) == n >= 1 + (pauseSeconds \div 20)

\* inactivity_threshold: 1 + int(self._draining_pause_seconds / 20.0)
InactivityThreshold == 1 + (pauseSeconds \div 20)

\* inactivity_counter > self.inactivity_threshold
CounterOverThreshold(n) == n > InactivityThreshold

\* a delivery that leaves the counter as it is
CounterKept == inactivityCounter

\* if method is not None: inactivity_counter = 0
CounterAfterDelivery == 0

otherVars == <<appVars, drainVars, eventVars>>

InitPolls ==
    /\ table = {} /\ initial = {}
    /\ burst = [t \in SignalModels |-> DefaultBurstCount]
    /\ hasBulk = [t \in SignalModels |-> FALSE]
    /\ CallsIdle
    /\ SessionIdle
    /\ ConsumerIdle
    /\ DrainNew(0)
    /\ EventsGiven(0, 0, None, None)
    /\ \E dm \in BOOLEAN : PollNew(dm)

\* start(), up to the loop: the flag off, the connection and the channel
PollStart ==
    /\ ppc \in {"new", "terminated"}
    /\ opened < MaxStarts
    /\ pstopped' = FALSE
    /\ opened' = opened + 1
    /\ connection' = opened + 1
    /\ pausedOn' = 0
    /\ ppc' = "while"
    /\ UNCHANGED <<pdraining, inactivityCounter, pauseSeconds, consuming,
                   emptyPolls, pauses, loopCancels, otherVars>>

\* while not self._stopped: inactivity_counter = 0, and channel.consume
\* registers the consumer on the channel
PollWhile ==
    /\ ppc = "while"
    /\ IF pstopped
       THEN /\ ppc' = "exit"
            /\ UNCHANGED <<inactivityCounter, consuming, emptyPolls>>
       ELSE /\ ppc' = "consume"
            /\ inactivityCounter' = 0
            /\ consuming' = TRUE
            /\ emptyPolls' = 0
    /\ UNCHANGED <<pdraining, pstopped, pauseSeconds, connection, opened,
                   pauses, loopCancels, pausedOn, otherVars>>

\* the generator yields a delivery, which is put on the queue
PollDelivery ==
    /\ ppc = "consume"
    /\ inactivityCounter' = CounterAfterDelivery
    /\ emptyPolls' = 0
    /\ ppc' = "iterated"
    /\ UNCHANGED <<pdraining, pstopped, pauseSeconds, consuming, connection,
                   opened, pauses, loopCancels, pausedOn, otherVars>>

\* the generator yields (None, None, None) after inactivity_timeout: the
\* counter goes up; in draining mode, over the threshold, channel.cancel()
\* ends the generator and _make_draining_pause is entered
PollEmpty ==
    /\ ppc = "consume"
    /\ inactivityCounter' = inactivityCounter + 1
    /\ emptyPolls' = emptyPolls + 1
    /\ IF pdraining /\ CounterOverThreshold(inactivityCounter + 1)
       THEN /\ pauses < MaxPauses
            /\ consuming' = FALSE
            /\ loopCancels' = loopCancels + 1
            /\ pausedOn' = connection
            /\ ppc' = "pause"
       ELSE /\ inactivityCounter < MaxPolls
            /\ ppc' = "iterated"
            /\ UNCHANGED <<consuming, loopCancels, pausedOn>>
    /\ UNCHANGED <<pdraining, pstopped, pauseSeconds, connection, opened,
                   pauses, otherVars>>

\* _make_draining_pause returns, the time being up or the flag being set,
\* with _draining_pause_seconds doubled
PollPauseEnds ==
    /\ ppc = "pause"
    /\ pauseSeconds' = NextPauseSeconds(pauseSeconds)
    /\ pauses' = pauses + 1
    /\ ppc' = "iterated"
    /\ UNCHANGED <<pdraining, pstopped, inactivityCounter, consuming,
                   connection, opened, emptyPolls, loopCancels, pausedOn,
                   otherVars>>

\* the end of an iteration: if self._stopped: break; else the next item of
\* the generator, which is over when the consumption was cancelled
PollIterated ==
    /\ ppc = "iterated"
    /\ ppc' = IF pstopped THEN "exit"
              ELSE IF consuming THEN "consume" ELSE "while"
    /\ UNCHANGED <<pdraining, pstopped, inactivityCounter, pauseSeconds,
                   consuming, connection, opened, emptyPolls, pauses,
                   loopCancels, pausedOn, otherVars>>

\* stop() is called, by another thread, a signal handler or a worker
PollStop ==
    /\ ppc \notin {"new", "terminated"}
    /\ ~pstopped
    /\ pstopped' = TRUE
    /\ UNCHANGED <<ppc, pdraining, inactivityCounter, pauseSeconds, consuming,
                   connection, opened, emptyPolls, pauses, loopCancels,
                   pausedOn, otherVars>>

\* the end of start(): the workers stopped and joined, channel.cancel(),
\* _purge(), raise TerminatedConsumtion()
PollExit ==
    /\ ppc = "exit"
    /\ consuming' = FALSE
    /\ connection' = 0
    /\ pstopped' = TRUE
    /\ ppc' = "terminated"
    /\ UNCHANGED <<pdraining, inactivityCounter, pauseSeconds, opened,
                   emptyPolls, pauses, loopCancels, pausedOn, otherVars>>

NextPolls ==
    \/ PollStart
    \/ PollWhile
    \/ PollDelivery
    \/ PollEmpty
    \/ PollPauseEnds
    \/ PollIterated
    \/ PollStop
    \/ PollExit

SpecPolls == InitPolls /\ [][NextPolls]_vars

----------------------------------------------------------------------------
(* The claims about the flush engine. *)

InTransaction(p) == pc[p] = "send"
Returned(p) == pc[p] = "done"
RowsOfModel(S, model) == {r \in S : r.t = model}

\* C1: at every moment the sets of rows selected by the locking, skip-locked
\* select of two in-flight flush transactions are disjoint: no row is claimed
\* by two calls.
C1_DisjointClaims ==
    \A p, q \in Flushers :
        (p # q /\ InTransaction(p) /\ InTransaction(q))
            => Range(signals[p]) \cap Range(signals[q]) = {}

\* C1 witness: two calls hold claimed rows of the same type at once.
C1_Witness ==
    \E p, q \in Flushers :
        /\ p # q /\ InTransaction(p) /\ InTransaction(q)
        /\ CurrentModel(p) = CurrentModel(q)
        /\ signals[p] # <<>> /\ signals[q] # <<>>

\* C2: a row whose deletion has been committed was delivered (its send
\* returned normally) earlier in the transaction that claimed and deleted it.
C2_DeleteAfterDelivery ==
    /\ lost = {}
    /\ \A p \in Flushers : removed[p] \subseteq delivered

\* C2 witness: two calls have each committed the deletion of rows.
C2_Witness == \A p \in Flushers : removed[p] # {}

\* C3: whatever crashes, every row pending before the calls is still in the
\* table or has had its delivery complete at least once.
C3_NoLoss == \A r \in initial : r \in table \/ r \in delivered

\* C3 witness: a call crashed between a completed delivery and the commit (no
\* other transaction is open, and nothing else has ended one without a
\* commit): the row was delivered and is still in the table.
C3_Witness ==
    /\ \E p \in Flushers : pc[p] = "crashed"
    /\ \A q \in Flushers : ~InTransaction(q)
    /\ sendErrors = 0 /\ conflicts = 0
    /\ \E r \in initial : r \in table /\ r \in delivered

\* C4: once all the calls (each flushing every signal type, every delivery
\* succeeding, no crash) have returned, their returned counts add up to the
\* number of rows pending at the start and the table is empty.
C4_CountsAddUp ==
    ( /\ \A p \in Flushers : Returned(p) /\ models[p] = <<"T1", "T2">>
      /\ sendErrors = 0 /\ crashes = 0 )
        => /\ Sum(result, Flushers) = Cardinality(initial)
           /\ table = {}

\* C5: when delivery raises on the k-th batch claimed by a call, the rows of
\* its batches 1..k-1 are deleted for good and the raise takes no row out of
\* the table: the rows of batch k and all later rows are still there, and
\* nothing stays locked or deleted by the call.
C5_DeliveryErrorKeepsBatch ==
    [][\A p \in Flushers :
          (pc[p] = "send" /\ pc'[p] = "failed" /\ err'[p] = "DeliveryError")
              => /\ table' = table
                 /\ Range(signals[p]) \subseteq table'
                 /\ removed[p] \cap table' = {}
                 /\ removed'[p] = removed[p]
                 /\ locks'[p] = {}]_vars

\* C5 witness: delivery raised on a second or later batch, and the rows of that
\* batch are in the table.
C5_Witness ==
    \E p \in Flushers :
        /\ pc[p] = "failed" /\ err[p] = "DeliveryError"
        /\ removed[p] # {}
        /\ failedBatch[p] # {} /\ failedBatch[p] \subseteq table
        /\ RowsOfModel(removed[p], "T1") # {}
        /\ RowsOfModel(failedBatch[p], "T1") # {}

\* C6: in every execution that returns normally, flushmany returns the number
\* of rows it delivered and whose deletion it committed, over all flushed
\* types, also when a conflict made the retry wrapper run a type's loop again.
C6_ReturnsRemovedCount ==
    \A p \in Flushers : Returned(p) => result[p] = Cardinality(removed[p])

\* C7, as stated: with 2B+1 pending rows of a type of burst size B, a single
\* flusher whose deliveries succeed makes exactly 3 claim/commit cycles, of B,
\* B and 1 rows, and returns 2B+1.
SingleFlushOf2BPlus1(p) ==
    /\ Returned(p) /\ models[p] = <<"T1">>
    /\ Cardinality(RowsOfModel(initial, "T1")) = 2 * burst["T1"] + 1
    /\ sendErrors = 0 /\ crashes = 0

C7_ThreeCycles ==
    \A p \in Flushers :
        SingleFlushOf2BPlus1(p)
            => /\ batches[p] = <<burst["T1"], burst["T1"], 1>>
               /\ result[p] = 2 * burst["T1"] + 1

\* C7, amended: for B >= 2 there are exactly 3 cycles, of B, B and 1 rows; for
\* B = 1 the third batch is a full one and a 4th cycle fetches no row; 2B+1 is
\* returned in both cases.
C7_ThreeCyclesFromTwo ==
    \A p \in Flushers :
        SingleFlushOf2BPlus1(p)
            => /\ burst["T1"] >= 2
                    => batches[p] = <<burst["T1"], burst["T1"], 1>>
               /\ burst["T1"] = 1 => batches[p] = <<1, 1, 1, 0>>
               /\ result[p] = 2 * burst["T1"] + 1

\* C7 witness: a flush of 2B+1 rows with B = 2 has returned.
C7_Witness ==
    \E p \in Flushers : SingleFlushOf2BPlus1(p) /\ burst["T1"] = 2

----------------------------------------------------------------------------
(* The claims about the retry primitive and the atomic block. *)

RetryCallDone == akind = "retry" /\ apc = "done"
AtomicCallDone == akind = "atomic" /\ apc = "done"
OtherError(e) == e \notin {"none", "ok", ConflictError}

\* C8: a callable wrapped by retry_on_deadlock(session, retries=R) is invoked
\* exactly R+1 times when every attempt raises the conflict kind, and the last
\* conflict error then reaches the caller; it is invoked exactly once when the
\* first attempt succeeds.
C8_RetryCount ==
    RetryCallDone
        => /\ allConflict => (executions = aretries + 1 /\ outcome = ConflictError)
           /\ first = "ok" => (executions = 1 /\ outcome = "returned")

\* C8 witness: a call with retries >= 2 whose every attempt raised a conflict
\* is over.
C8_Witness == RetryCallDone /\ allConflict /\ aretries >= 2

\* C9: an error of the wrapped callable that is not of the conflict kind goes
\* to the caller at once: raised by the first invocation, it leaves the
\* callable invoked exactly once, whatever the retries; and the callable is
\* never invoked again after anything but a conflict.
C9_OtherErrorNotRetried ==
    /\ (apc = "done" /\ OtherError(first))
           => (executions = 1 /\ outcome = first)
    /\ (akind = "retry" /\ apc = "body" /\ executions > 0)
           => last = ConflictError
    /\ (apc = "done" /\ OtherError(last)) => outcome = last

\* C9 witness: a wrapped callable with retries left raised another error.
C9_Witness == RetryCallDone /\ OtherError(first) /\ aretries >= 1

NestedCallDone == AtomicCallDone /\ nested # "none"

\* C11, as stated: a two-level nested atomic invocation results in one commit
\* or one rollback overall, never two, and the inner call commits nothing and
\* rolls back nothing.
C11_OneCommitOrOneRollback ==
    /\ innerEnds = 0
    /\ NestedCallDone
           => (commits + rollbacks >= 1 /\ commits <= 1 /\ rollbacks <= 1)

\* C11, amended: the inner call never commits and never rolls back; the
\* outermost call commits at most once, the session is rolled back once for
\* every conflict that is retried and once more when the call raises, and a
\* call with no retried conflict ends with the one commit alone when it
\* returns, with one rollback when it raises.
C11_InnerCallEndsNothing ==
    /\ innerEnds = 0
    /\ NestedCallDone
           => /\ commits <= 1
              /\ rollbacks = afailures + (IF outcome = "returned" THEN 0 ELSE 1)
              /\ outcome = "returned" => commits = 1
              /\ afailures = 0
                    => \/ commits = 1 /\ rollbacks = 0 /\ outcome = "returned"
                       \/ rollbacks = 1 /\ outcome # "returned"

\* C11 witness: an atomic call whose function called an atomic-wrapped
\* function, which returned, has committed once and never rolled back.
C11_Witness ==
    /\ NestedCallDone /\ nested = "returned"
    /\ commits = 1 /\ rollbacks = 0 /\ outcome = "returned"

\* C12: _ATOMIC_FLAG_SESSION_INFO_KEY is set exactly while an outermost atomic
\* call is executing: it is off before the call and after it has returned
\* or raised (an error of the function, exhausted retries, an error of the
\* commit), so every atomic call made from outside an atomic function is an
\* outermost one, never one executed directly.
C12_FlagWhileOutermost ==
    /\ atomicFlag <=> (akind = "atomic" /\ apc \in {"body", "flush", "commit"})
    /\ akind # "direct"

\* C12 witness: after an atomic call that raised, a second atomic call is
\* executing as an outermost call, with the flag on.
C12_Witness ==
    /\ calls = 2 /\ prior \notin {"none", "returned"}
    /\ akind = "atomic" /\ apc = "body" /\ atomicFlag

\* C13: in an atomic call, an IntegrityError raised inside
\* retry_on_integrity_error becomes the conflict error: the session is rolled
\* back and the function executed again; when this happens at every
\* execution, the function is executed more than once (DefaultRetries + 1
\* times), nothing is committed and the call raises DBSerializationError.
C13_IntegrityErrorRetried ==
    (akind = "atomic" /\ allIntegrity /\ executions >= 1)
        => /\ last = ConflictError
           /\ rollbacks = executions
           /\ commits = 0
           /\ apc \in {"body", "done", "idle"}
           /\ apc # "body"
                 => /\ executions > 1
                    /\ executions = DefaultRetries + 1
                    /\ outcome = ConflictError

\* C13 witness: an atomic call whose every execution raised IntegrityError
\* inside retry_on_integrity_error is over.
C13_Witness == AtomicCallDone /\ allIntegrity /\ executions > 1

----------------------------------------------------------------------------
(* The claims about the broker consumer. *)

ActiveWorkers == 1..threads
Raised(t) == results[t] # <<>> /\ results[t][Len(results[t])] = "raise"
IsPrefix(a, b) == Len(a) <= Len(b) /\ \A i \in 1..Len(a) : a[i] = b[i]
QueueFull == Len(workQueue) = QueueSize

\* C14: for a delivery whose callback returned true the worker hands over
\* exactly one basic_ack of its tag; for one whose callback returned false,
\* exactly one basic_reject of its tag with requeue=False; never both, never
\* two, and the callback is not called again for a rejected message, so the
\* channel rejects it at most once.
C14_OneHandOffPerResult ==
    \A t \in Tags :
        /\ results[t] = <<"true">> => handoffs[t] = <<BasicAck(t)>>
        /\ results[t] = <<"false">> => handoffs[t] = <<BasicReject(t)>>
        /\ (results[t] # <<>> /\ results[t][1] = "false") => Len(results[t]) = 1
        /\ Len(handoffs[t]) <= 1
        /\ \A i \in 1..Len(handoffs[t]) :
              handoffs[t][i].op = "basic_reject" => ~handoffs[t][i].requeue
        /\ IsPrefix(executed[t], handoffs[t])

\* C14 witness: a consumer with 1 worker whose callback returned false for a
\* message has had the message rejected without requeue, once.
C14_Witness ==
    /\ threads = 1
    /\ \E t \in Tags :
          results[t] = <<"false">> /\ executed[t] = <<BasicReject(t)>>

BlockedInPut ==
    /\ iopc = "put"
    /\ ~QueueHasRoom
    /\ \A w \in ActiveWorkers : wpc[w] = "exited"

\* C16, in a finite form: after an error of the callback has stopped the
\* consumer, start() is never blocked for good on its full queue (so that it
\* goes on to stop and join the workers, close the connection and raise
\* TerminatedConsumtion).
C16_StartExitsAfterError == failed # {} => ~BlockedInPut

\* the I/O thread is in worker.join() while a worker that every worker.stop()
\* has missed polls the empty queue with is_running on
JoinNeverReturns ==
    /\ iopc = "join"
    /\ workQueue = <<>>
    /\ \E w \in ActiveWorkers : isRunning[w] /\ wpc[w] \in {"test", "get"}

\* C17, in a finite form: after stop() has been called while start() is
\* executing, and with no callback raising or blocking, start() never waits
\* for good in worker.join().
C17_StopEndsStart == (stopCalled /\ failed = {}) => ~JoinNeverReturns

\* C18: only the I/O thread operates the connection and the channel: what a
\* worker wants done to the channel it hands over through
\* add_callback_threadsafe, and the channel executes only such handed-over
\* calls, in the I/O thread.
C18_OnlyIoThreadUsesChannel ==
    /\ channelUsers \subseteq {IoThread}
    /\ \A t \in Tags : IsPrefix(executed[t], handoffs[t])
    /\ \A i \in 1..Len(callbacks) :
          /\ handoffs[callbacks[i].tag] = <<callbacks[i]>>
          /\ executed[callbacks[i].tag] = <<>>

\* C18 witness: with two workers, calls handed over by workers have been
\* executed while another one waits for the I/O thread.
C18_Witness ==
    /\ threads = 2
    /\ callbacks # <<>>
    /\ \E t \in Tags : executed[t] # <<>>

\* C19, as stated: the queue never holds more than max(prefetch_count // 3,
\* threads) items, and while it is full the I/O thread takes no delivery.
C19_FullQueueStopsIntake ==
    /\ [](Len(workQueue) <= QueueSize)
    /\ [][QueueFull => nextTag' <= nextTag]_vars

\* C19, amended: the queue never holds more than max(prefetch_count // 3,
\* threads) items; while it is full the I/O thread takes at most one more
\* delivery, and with that delivery in hand it stays in put(t), taking nothing
\* and queueing nothing, until a worker has removed an item.
C19_FullQueueBlocksPut ==
    /\ [](Len(workQueue) <= QueueSize)
    /\ [][(QueueFull /\ nextTag' > nextTag)
              => (inHand = 0 /\ inHand' = nextTag' /\ nextTag' = nextTag + 1)]_vars
    /\ [][(QueueFull /\ iopc = "put")
              => /\ iopc' = "put" /\ inHand' = inHand /\ nextTag' = nextTag
                 /\ Len(workQueue') <= Len(workQueue)]_vars

\* C19 witness: the I/O thread waits in put(t) for room on the full queue.
C19_Witness == iopc = "put" /\ QueueFull /\ inHand # 0

\* the deliveries put on the queue so far
PutTags == {t \in 1..nextTag : t # inHand}
\* where delivery t is: on the queue, or with a worker
Holders(t) ==
    Cardinality({i \in 1..Len(workQueue) : workQueue[i] = t})
        + Cardinality({w \in Workers : item[w] = t})

\* C20, as stated: no delivery is passed to the callback twice or by two
\* workers, and every item put on the queue is passed to the callback of
\* some worker: none is left when start() has ended.
C20_ConsumedExactlyOnce ==
    /\ \A t \in Tags : Len(results[t]) <= 1
    /\ iopc = "terminated" => \A t \in PutTags : Len(results[t]) = 1

\* C20, amended: every delivery is put on the queue once and is passed to the
\* callback at most once, by one worker; until start() ends each item put is
\* on the queue, with one worker, or has been passed to the callback; items
\* still on the queue when start() ends are dropped with nothing handed over
\* for them.
C20_ConsumedAtMostOnce ==
    /\ \A t \in Tags :
          /\ Len(results[t]) <= 1
          /\ Holders(t) + Len(results[t]) <= 1
          /\ results[t] = <<>> => handoffs[t] = <<>>
    /\ iopc # "terminated"
          => \A t \in PutTags : Holders(t) + Len(results[t]) = 1

\* C20 witness: two workers are processing two deliveries at once, after
\* another delivery has been processed.
C20_Witness ==
    /\ item[1] # 0 /\ item[2] # 0
    /\ \E t \in Tags : results[t] # <<>>

----------------------------------------------------------------------------
(* The claims about the session of the atomic block. *)

\* C25: an outermost atomic call that returns has run, in this order, the
\* function, session.flush(), session.expunge_all() and session.commit():
\* the flush finds the object the function added pending, the commit finds it
\* written and already out of the session, and the caller gets it detached.
C25_FlushExpungeCommit ==
    akind = "atomic" =>
        /\ apc = "flush" => last = "ok" /\ obj = "pending"
        /\ apc = "commit" =>
              /\ flushed = "ok" /\ obj = "persistent"
              /\ committed = "none" /\ objAtCommit = "none"
        /\ apc = "done" /\ outcome = "returned" =>
              /\ last = "ok" /\ flushed = "ok" /\ committed = "ok"
              /\ commits = 1
              /\ objAtCommit = "detached"
              /\ obj = "detached"

\* an atomic call has returned, after a retry, with its object detached
C25_Witness ==
    /\ AtomicCallDone /\ outcome = "returned"
    /\ afailures >= 1
    /\ obj = "detached" /\ objAtCommit = "detached"

\* the use of retry_on_integrity_error outside an atomic block has ended
GuardedCallDone == akind = "guard" /\ apc \in {"done", "idle"}

\* C26: retry_on_integrity_error entered outside an atomic block raises
\* AssertionError before the guarded operation runs: the operation is not
\* executed, nothing is flushed, added to the session or committed.
C26_AssertionOutsideAtomic ==
    GuardedCallDone =>
        /\ outcome = "AssertionError"
        /\ executions = 0
        /\ flushed = "none" /\ obj = "none"
        /\ commits = 0 /\ committed = "none"

\* the guard has raised AssertionError right after an atomic call returned
C26_Witness ==
    /\ GuardedCallDone /\ outcome = "AssertionError"
    /\ prior = "returned"

----------------------------------------------------------------------------
(* The claims about is_later_event. *)

\* seqnum a is later than seqnum b as 32-bit signed numbers that wrap around:
\* the difference a - b, wrapped to 32 bits, is positive
WrappedLater(a, b) ==
    IF (a >= 0) = (b >= 0) THEN a - b > 0
    ELSE IF a >= 0 THEN a <= MaxInt32 + b
    ELSE a < MinInt32 + b

\* C27: is_later_event returns True when the timestamp of event is at least
\* 1 second later than the one of other_event and False when it is at least
\* 1 second earlier, whatever the sequential numbers; with the timestamps
\* less than 1 second apart it compares the sequential numbers with 32-bit
\* wrap-around; with no timestamp of other_event it returns True.
C27_LaterByOneSecond ==
    isLater # "none" =>
        IF otherTs = None THEN isLater = "true"
        ELSE LET advance == ts - otherTs[1] IN
             /\ advance >= TicksPerSecond => isLater = "true"
             /\ advance <= 0 - TicksPerSecond => isLater = "false"
             /\ (advance < TicksPerSecond /\ advance > 0 - TicksPerSecond)
                => (isLater = "true") =
                      (otherSeqnum = None
                          \/ WrappedLater(seqnum, otherSeqnum[1]))

----------------------------------------------------------------------------
(* The claims about the calls of the delivery methods. *)

\* the calls the batch in hand of p is to get: one bulk call with all its
\* rows when it has more than one row and the model has the bulk method,
\* else one single call per row, in the order of the batch
ExpectedCalls(p) ==
    LET n == Len(signals[p]) IN
    IF n > 1 /\ hasBulk[CurrentModel(p)]
    THEN <<SendCall("bulk", signals[p], TRUE)>>
    ELSE [i \in 1..n |-> SendCall("single", <<signals[p][i]>>, TRUE)]

\* C28: the delivery calls made for a batch of n rows are always a prefix of
\* the calls it is to get (one bulk call with the n rows when n > 1 and the
\* model has the bulk method, else one single call per row in batch order,
\* none when n = 0), and the batch is committed with exactly these calls
\* made and exactly its n rows deleted.
C28_DispatchPerBatch ==
    /\ [](\A p \in Flushers :
            pc[p] = "send" => IsPrefix(sendCalls[p], ExpectedCalls(p)))
    /\ [][\A p \in Flushers :
            Len(batches'[p]) > Len(batches[p]) =>
               /\ sendCalls[p] = ExpectedCalls(p)
               /\ Range(signals[p]) \subseteq table
               /\ table' = table \ Range(signals[p])
               /\ removed'[p] = removed[p] \cup Range(signals[p])]_vars

\* after two bulk calls of two rows and a single call for a batch of one row
\* of T1, the row of T2 has got its single call
C28_Witness ==
    /\ hasBulk["T1"]
    /\ pc[1] = "send" /\ CurrentModel(1) = "T2"
    /\ batches[1] = <<2, 2, 1>>
    /\ sendCalls[1] = <<SendCall("single", <<Row("T2", 1)>>, TRUE)>>

\* the rows of the calls cs
RowsOfCalls(cs) == UNION {Range(cs[i].rows) : i \in 1..Len(cs)}

\* C29: a delivery call that raises is the last call made by the flushmany
\* call and the only one that raised: the call fails with the delivery error,
\* as it is, the rows of the failing call were not passed to a delivery
\* method before, they and their batch stay in the table, and no row of a
\* model later in the list is delivered or deleted.
C29_DeliveryErrorNotRetried ==
    \A p \in Flushers :
        /\ (\E i \in 1..Len(sendCalls[p]) : ~sendCalls[p][i].ok)
           => pc[p] = "failed" /\ err[p] = "DeliveryError"
        /\ (pc[p] = "failed" /\ err[p] = "DeliveryError") =>
              LET k == Len(sendCalls[p])
                  rows == Range(sendCalls[p][k].rows) IN
              /\ k >= 1
              /\ ~sendCalls[p][k].ok
              /\ \A i \in 1..(k - 1) : sendCalls[p][i].ok
              /\ rows \cap RowsOfCalls(SubSeq(sendCalls[p], 1, k - 1)) = {}
              /\ rows \cap removed[p] = {}
              /\ rows \subseteq table
              /\ failedBatch[p] \subseteq table
              /\ result[p] = -1
              /\ \A j \in (mi[p] + 1)..Len(models[p]) :
                    /\ RowsOfModel(table, models[p][j])
                          = RowsOfModel(initial, models[p][j])
                    /\ RowsOfModel(delivered, models[p][j]) = {}

\* the single delivery of the second row of a batch of T1 has raised, after
\* an earlier batch was committed, and the row of T2 is untouched
C29_Witness ==
    /\ pc[1] = "failed" /\ err[1] = "DeliveryError"
    /\ models[1] = <<"T1", "T2">>
    /\ Len(sendCalls[1]) = 2 /\ sendCalls[1][2].m = "single"
    /\ removed[1] # {}
    /\ RowsOfModel(table, "T2") # {}

\* C30: within one flushmany call no row whose delivery has completed is
\* passed to a delivery method again after the retry that follows a
\* conflict-class error.
C30_NoDeliveryRepeated ==
    [][\A p \in Flushers :
          (deliveredTx'[p] \ deliveredTx[p]) \cap sentBefore[p] = {}]_vars

----------------------------------------------------------------------------
(* The claims about the lists of models given to flushmany. *)

\* the position of the first model of the list of p that is no signal model
\* (0: none)
FirstInvalid(p) ==
    LET bad == {i \in 1..Len(models[p]) : ~HasSendMethod(models[p][i])}
    IN IF bad = {} THEN 0 ELSE CHOOSE i \in bad : \A j \in bad : i <= j

----------------------------------------------------------------------------
(* The claims about the draining pauses. *)

Abs(x) == IF x < 0 THEN 0 - x ELSE x

\* the instances that are in a draining pause now
Pausing == {c \in Consumers : dmode[c] = "pause"}

\* C21: two instances with the same pause length that have entered their
\* draining pauses less than one pause length apart have computed the same
\* end of the pause, to the second.
C21_SamePauseEnd ==
    \A c1 \in Pausing, c2 \in Pausing :
        /\ drainingPauseSeconds[c1] = drainingPauseSeconds[c2]
        /\ Abs(epoch[c1] - epoch[c2]) < drainingPauseSeconds[c1]
        => Abs(pauseUntil[c1] - pauseUntil[c2]) <= 1

\* C22: a start() that follows a terminated start() on the same instance
\* begins with the initial pause length of 15 seconds.
C22_StartResetsPause ==
    [][\A c \in Consumers :
          dmode[c] = "terminated" /\ dmode'[c] = "consuming"
          => drainingPauseSeconds'[c] = InitialDrainingPauseSeconds]_vars

\* C23: the pause length is always between 15 and 3600 seconds, never
\* decreases over the life of an instance, and every draining pause that
\* completes replaces it by min(2 * dps, 3600).
C23_PauseDoublesUpToCap ==
    /\ [](\A c \in Consumers :
            /\ drainingPauseSeconds[c] >= 15
            /\ drainingPauseSeconds[c] <= 3600)
    /\ [][\A c \in Consumers :
            /\ drainingPauseSeconds'[c] >= drainingPauseSeconds[c]
            /\ dmode[c] = "pause" /\ dmode'[c] # "pause"
               => \/ drainingPauseSeconds'[c] = 2 * drainingPauseSeconds[c]
                  \/ /\ drainingPauseSeconds'[c] = 3600
                     /\ 2 * drainingPauseSeconds[c] >= 3600]_vars

\* an instance has completed a pause of the capped length and is consuming
\* again, while the other one has only reached 60 seconds
C23_Witness ==
    \E c1 \in Consumers, c2 \in Consumers :
        /\ dmode[c1] = "consuming" /\ drainingPauseSeconds[c1] = 3600
        /\ now >= 1
        /\ drainingPauseSeconds[c2] = 60
----------------------------------------------------------------------------
(* Conflicts at commit. *)

\* C31: when session.commit() raises a conflict-class error in the loop of a
\* type, the table and the committed deletions stay as they are, the call
\* stays at that type with its total, and either _flushmany_signals is invoked
\* again for it (fewer than 11 retries made so far) or the conflict error
\* leaves the call (11 retries made); no call ever goes back to an earlier
\* type, fetches or delivers a row whose deletion it has committed, or makes
\* more than 11 retries for a type.
C31_CommitConflictRestartsType ==
    /\ [](\A p \in Flushers :
            /\ Range(signals[p]) \cap removed[p] = {}
            /\ numFailures[p] <= FlushRetries
            /\ (pc[p] = "failed" /\ err[p] = ConflictError
                    => numFailures[p] = FlushRetries))
    /\ [][\A p \in Flushers :
            /\ (pc[p] = "send" /\ conflicts' = conflicts + 1) =>
                  /\ table' = table /\ removed' = removed
                  /\ mi'[p] = mi[p] /\ total'[p] = total[p]
                  /\ IF numFailures[p] < FlushRetries
                     THEN /\ pc'[p] = "select"
                          /\ numFailures'[p] = numFailures[p] + 1
                          /\ err'[p] = "none"
                     ELSE /\ pc'[p] = "failed"
                          /\ err'[p] = ConflictError
            /\ mi'[p] >= mi[p]
            /\ (deliveredTx'[p] \ deliveredTx[p]) \cap removed[p] = {}]_vars

\* the call gave up at the second type of the list after 11 retries, with a
\* row of that type deleted and committed before
C31_Witness ==
    /\ pc[1] = "failed" /\ err[1] = ConflictError
    /\ mi[1] = 2 /\ numFailures[1] = FlushRetries
    /\ conflicts > FlushRetries
    /\ \E r \in removed[1] : r.t = CurrentModel(1)

----------------------------------------------------------------------------
(* The burst loop. *)

\* C32: the burst count B of every type is positive and no claim fetches more
\* than B rows; at the commit of a claim of fewer than B rows the loop of the
\* type is over (the call goes to the next type of its list), at the commit of
\* a claim of B rows the call stays at the type and claims again, with B rows
\* of the type fewer in the table; and a call with every delivery succeeding
\* and no other user of the table returns.
C32_BurstLoopEnds ==
    /\ [](\A t \in SignalModels : GetSignalBurstCount(t) > 0)
    /\ [](\A p \in Flushers :
            pc[p] = "send"
                => Len(signals[p]) <= GetSignalBurstCount(CurrentModel(p)))
    /\ [][\A p \in Flushers :
            Len(batches'[p]) > Len(batches[p]) =>
                IF Len(signals[p]) < GetSignalBurstCount(CurrentModel(p))
                THEN mi'[p] = mi[p] + 1
                ELSE /\ mi'[p] = mi[p] /\ pc'[p] = "select"
                     /\ Cardinality(RowsOfModel(table', CurrentModel(p)))
                          = Cardinality(RowsOfModel(table, CurrentModel(p)))
                              - GetSignalBurstCount(CurrentModel(p))]_vars
    /\ <>(pc[1] = "done")

\* a call has returned after claims of B = 2, 2 and 1 rows of the first type
C32_Witness ==
    /\ pc[1] = "done" /\ burst["T1"] = 2
    /\ Len(batches[1]) >= 3
    /\ batches[1][1] = 2 /\ batches[1][2] = 2 /\ batches[1][3] = 1
    /\ RowsOfModel(removed[1], "T1") = RowsOfModel(initial, "T1")

----------------------------------------------------------------------------
(* Errors of the commit, and errors caught by the outer function. *)

\* C36: when session.commit() of an atomic call raises, a conflict error
\* included, the function is not executed again and no retry is counted: the
\* commit was called once, the session is rolled back once more, the flag is
\* cleared and the call raises that error; a conflict raised by
\* session.flush(), with retries left, has the function executed again.
C36_CommitErrorNotRetried ==
    /\ [](AtomicCallDone /\ committed \in SessionErrors
            => /\ outcome = committed
               /\ commits = 1
               /\ last = "ok" /\ flushed = "ok"
               /\ rollbacks = afailures + 1
               /\ executions = afailures + 1)
    /\ [][(apc = "commit" /\ committed' \in SessionErrors)
            => /\ executions' = executions /\ afailures' = afailures
               /\ commits = 0 /\ commits' = 1
               /\ rollbacks' = rollbacks + 1
               /\ apc' = "done" /\ outcome' = committed'
               /\ ~atomicFlag']_vars
    /\ [][(apc = "flush" /\ flushed' = ConflictError /\ afailures < aretries)
            => /\ apc' = "body" /\ afailures' = afailures + 1
               /\ commits' = 0]_vars

\* an atomic call whose one execution returned, whose flush succeeded and
\* whose commit raised the conflict error, has raised it
C36_Witness ==
    /\ AtomicCallDone /\ committed = ConflictError
    /\ executions = 1 /\ commits = 1 /\ rollbacks = 1
    /\ outcome = ConflictError /\ ~atomicFlag

\* the inner atomic-wrapped function, executed directly, raises: the step
\* leaves the session, the flag and the counters of the outer call as they
\* are, with the inner function's object pending in the session
InnerErrorChangesNothing ==
    [][(nested = "direct" /\ nested' \in BodyErrors)
        => /\ rollbacks' = rollbacks /\ commits' = commits
           /\ afailures' = afailures /\ executions' = executions
           /\ atomicFlag /\ atomicFlag'
           /\ apc' = "body" /\ akind' = "atomic"
           /\ obj' = obj /\ innerObj' = "pending"]_vars

----------------------------------------------------------------------------
(* The order of validation and delivery. *)

\* C37: a flushmany call given a list with a model that lacks
\* send_signalbus_message delivers no row and deletes no row, so that no
\* deletion is committed, wherever the model is in the list, and a call that
\* has failed with RuntimeError has done none of these.
C37_ValidationBeforeDelivery ==
    \A p \in Flushers :
        (FirstInvalid(p) > 0 \/ (pc[p] = "failed" /\ err[p] = "RuntimeError"))
            => /\ sendCalls[p] = <<>> /\ deliveredTx[p] = {}
               /\ removed[p] = {}
               /\ table = initial

----------------------------------------------------------------------------
(* The end of start(). *)

\* start() has ended: by raising TerminatedConsumtion, or by the connection
\* error that went through it
StartExited == iopc \in {"terminated", "lost"}

\* C34: whenever start() has ended, after a lost connection as after a closed
\* channel or a stop, it has raised TerminatedConsumtion, no worker is left
\* running and the connection is released.
C34_BrokerErrorEndsStart ==
    StartExited
        => /\ iopc = "terminated"
           /\ \A w \in ActiveWorkers : wpc[w] = "exited"
           /\ ~connected

\* C35, in a finite form: once the I/O thread has called worker.stop() on
\* every worker and waits in worker.join(), no worker goes on polling the
\* empty queue with is_running on (nothing would set it off again, so the
\* worker would not leave its loop and join() would not return).
C35_StopSignalEndsWorker ==
    \A w \in ActiveWorkers :
        (iopc = "join" /\ workQueue = <<>> /\ wpc[w] \in {"test", "get"})
            => ~isRunning[w]

\* C38: the channel executes an ack or a reject of a delivery, and a worker
\* hands one over, only after the callback has returned for that delivery,
\* true for an ack and false for a reject: nothing is handed over or executed
\* for a delivery that is on the queue, in the hand of the I/O thread or of a
\* worker, dropped with the queue at the end of start(), or whose callback
\* raised.
C38_AckOnlyAfterCallback ==
    \A t \in Tags :
        /\ \A i \in 1..Len(handoffs[t]) :
              /\ results[t] # <<>>
              /\ handoffs[t][i].op = "basic_ack" => results[t] = <<"true">>
              /\ handoffs[t][i].op = "basic_reject" => results[t] = <<"false">>
        /\ \A i \in 1..Len(executed[t]) :
              /\ i <= Len(handoffs[t])
              /\ executed[t][i] = handoffs[t][i]
        /\ (t > nextTag \/ t = inHand \/ Holders(t) > 0 \/ Raised(t)
                \/ results[t] = <<>>)
              => (handoffs[t] = <<>> /\ executed[t] = <<>>)

\* start() has ended after an ack was executed, with one delivery whose
\* callback raised and one that was dropped with the queue, both unacknowledged
C38_Witness ==
    /\ iopc = "terminated"
    /\ \E t \in 1..nextTag : executed[t] = <<BasicAck(t)>>
    /\ \E t \in 1..nextTag : Raised(t) /\ executed[t] = <<>>
    /\ \E t \in PutTags : results[t] = <<>> /\ executed[t] = <<>>

\* a worker hands over an ack or a reject
HandOffMade == \E t \in Tags : Len(handoffs'[t]) > Len(handoffs[t])

\* the end of start(): worker.stop() for every worker, then worker.join() for
\* every worker, then channel.cancel() and _purge(), which closes the
\* connection, then raise; the connection is closed by start() only when every
\* worker has left run()
ShutdownOrder ==
    /\ [][(iopc = "stop" /\ iopc' # "stop")
            => (iopc' = "join" /\ ioi = threads)]_vars
    /\ [][(iopc = "join" /\ iopc' # "join")
            => /\ iopc' = "purge"
               /\ \A w \in ActiveWorkers : wpc[w] = "exited"]_vars
    /\ [][(iopc = "purge" /\ iopc' # "purge")
            => /\ iopc' = "terminated"
               /\ connected /\ ~connected'
               /\ \A w \in ActiveWorkers : wpc[w] = "exited"]_vars
    /\ [][(connected /\ ~connected' /\ iopc' # "lost") => iopc = "purge"]_vars

\* C39, as stated: the order of the end of start(), and hence whenever the
\* connection of a started consumer is closed every worker has terminated, and
\* no worker hands anything over to a closed connection.
C39_WorkersEndBeforeClose ==
    /\ ShutdownOrder
    /\ []((~connected /\ iopc # "new")
            => \A w \in ActiveWorkers : wpc[w] = "exited")
    /\ [][HandOffMade => connected]_vars

\* C39, amended: the order of the end of start(), and hence whenever start()
\* has closed the connection every worker has terminated, and no worker hands
\* anything over once the workers have been joined.
C39_WorkersEndBeforeStartCloses ==
    /\ ShutdownOrder
    /\ [](iopc = "terminated"
            => (~connected /\ \A w \in ActiveWorkers : wpc[w] = "exited"))
    /\ [][HandOffMade => iopc \notin {"purge", "terminated"}]_vars

\* start() has ended with TerminatedConsumtion after two workers handed over
\* acks or rejects
C39_Witness ==
    /\ iopc = "terminated" /\ threads = 2 /\ ~connected
    /\ \E t, u \in Tags : t # u /\ handoffs[t] # <<>> /\ handoffs[u] # <<>>

----------------------------------------------------------------------------
(* The inactivity counter. *)

\* C33: a draining pause begins only in draining mode, at an empty poll that
\* brings the number of consecutive empty polls over 1 + floor(dps / 20), and
\* it begins at every such poll, with the consumption cancelled; a delivery
\* sets the counter to zero; after a pause, unless the stop flag is set, the
\* loop registers the consumer again, on the connection of the pause, with
\* the counter at zero; and with draining mode off there is no pause and no
\* cancellation, and the consumption is active all through the loop.
C33_PauseOnlyOverThreshold ==
    /\ [][(ppc # "pause" /\ ppc' = "pause")
            => /\ pdraining
               /\ emptyPolls' = emptyPolls + 1
               /\ emptyPolls' > 1 + (pauseSeconds \div 20)
               /\ consuming /\ ~consuming'
               /\ loopCancels' = loopCancels + 1]_vars
    /\ [][(pdraining /\ emptyPolls' = emptyPolls + 1
              /\ emptyPolls' > 1 + (pauseSeconds \div 20))
            => ppc' = "pause"]_vars
    /\ [][(ppc = "consume" /\ ppc' = "iterated" /\ emptyPolls' = 0)
            => inactivityCounter' = 0]_vars
    /\ [](inactivityCounter = emptyPolls)
    /\ [][loopCancels' # loopCancels => ppc' = "pause"]_vars
    /\ [][(ppc = "iterated" /\ ~consuming /\ ~pstopped /\ ppc' # ppc)
            => ppc' = "while"]_vars
    /\ [][(ppc = "while" /\ ~pstopped /\ ppc' # ppc)
            => /\ ppc' = "consume" /\ consuming'
               /\ inactivityCounter' = 0
               /\ connection' = connection
               /\ pausedOn > 0 => connection = pausedOn]_vars
    /\ [](ppc \in {"while", "consume", "pause", "iterated", "exit"}
            => connection = opened /\ connection > 0)
    /\ [](~pdraining
            => /\ pauses = 0 /\ loopCancels = 0 /\ ppc # "pause"
               /\ ppc \in {"consume", "iterated"} => consuming)

\* the consumption has been resumed after a second pause (made with the
\* threshold at 2), on the connection of the pause, and a delivery has come
C33_Witness ==
    /\ pdraining /\ pauses = 2 /\ ~pstopped
    /\ ppc = "iterated" /\ consuming
    /\ inactivityCounter = 0
    /\ connection = pausedOn /\ opened = 1

====
